---- MODULE Spec2Model ----
(***************************************************************************)
(* Document layout and structure engine of the flipbook page editor (App). *)
(* State: the React state of App (pages, currentPageId, history,           *)
(* historyIndex, selection, clipboard, drag/resize sessions).  One action  *)
(* per event handler; the summary-page effect is its own step, run before  *)
(* the next user event whenever its dependencies changed.                  *)
(*                                                                         *)
(* Element objects have identity: a history snapshot and the live pages    *)
(* share element objects (spread copies only replace what they change).    *)
(* The field ref is the object's identity; ref = 0 marks an object just    *)
(* created by a handler, named by AllocRefs when the handler stores it.    *)
(* Ids (uuidv4) are drawn from the counter nextId; null is NoId.           *)
(***************************************************************************)
EXTENDS Integers, Sequences, FiniteSets, TLC

VARIABLES pages, currentPageId, history, historyIndex, selectedIds, clipboard,
          dragInfo, resizeState, showGrid, toast, effectDeps, nextId,
          nCommits, trace, logging, request

vars == <<pages, currentPageId, history, historyIndex, selectedIds, clipboard,
          dragInfo, resizeState, showGrid, toast, effectDeps, nextId,
          nCommits, trace, logging, request>>

(* ------------------------------ constants ------------------------------ *)
A4_WIDTH_PX == 794
A4_HEIGHT_PX == 1123
GRID_SIZE == 20
MAX_TOC_ITEMS == 22
GAP == 20
MARGIN_TOP == 40
MARGIN_BOTTOM == 40
HISTORY_LIMIT == 50
MIN_RESIZE == 50
PASTE_OFFSET == 20
TOC_HEIGHT == 1043

NoId == 0
NoDrag == [active |-> FALSE, initialPos |-> <<>>]
NoRequest == [pending |-> FALSE]
NoResize == [isResizing |-> FALSE, initialWidth |-> 0, initialHeight |-> 0, elementId |-> NoId]

(* ------------------------------ bounds --------------------------------- *)
MaxCommits == 2
MaxLayoutCommits == 4
MaxInsertCommits == 3
MaxStructureCommits == 2
MaxPlacementCommits == 3
MaxBoxes == 3
MaxGravityCommits == 2
MaxHeadings == 3
MaxNumberingCommits == 2
MaxPageCommits == 2
MaxHistCommits == 52
MaxTrace == 5
MaxDeleteCommits == 4
MaxDeleteTrace == 7

(* ------------------------------ helpers -------------------------------- *)
Max(S) == CHOOSE m \in S : \A n \in S : n <= m
Min(S) == CHOOSE m \in S : \A n \in S : m <= n

RECURSIVE SeqFilter(_, _)
SeqFilter(s, keep) ==
    IF s = <<>> THEN <<>>
    ELSE IF Head(s).id \in keep THEN <<Head(s)>> \o SeqFilter(Tail(s), keep)
         ELSE SeqFilter(Tail(s), keep)

\* Array.prototype.findIndex: 0-based index of the first match, -1 if none.
FindIndexById(s, id) ==
    IF \E i \in 1..Len(s) : s[i].id = id
    THEN Min({i \in 1..Len(s) : s[i].id = id}) - 1 ELSE -1
FindIndexByType(s, t) ==
    IF \E i \in 1..Len(s) : s[i].type = t
    THEN Min({i \in 1..Len(s) : s[i].type = t}) - 1 ELSE -1

\* Array.prototype.splice(idx, 0, item): negative idx counts from the end,
\* idx beyond the end appends.
Splice(s, idx, item) ==
    LET k == IF idx < 0 THEN Max({0, Len(s) + idx})
             ELSE IF idx > Len(s) THEN Len(s) ELSE idx
    IN SubSeq(s, 1, k) \o <<item>> \o SubSeq(s, k + 1, Len(s))

IdsOf(s) == {s[i].id : i \in 1..Len(s)}

(* --------------------------- object identity --------------------------- *)
RefsOfPages(ps) == UNION {{ps[i].elements[j].ref : j \in 1..Len(ps[i].elements)} : i \in 1..Len(ps)}
RefsOfHistory(h) == UNION {RefsOfPages(h[k]) : k \in 1..Len(h)}
RefsOfClipboard(c) == {c[j].ref : j \in 1..Len(c)}

\* The k-th smallest positive number outside used.
NthFree(used, k) ==
    CHOOSE n \in 1..(Cardinality(used) + k) :
        n \notin used /\ Cardinality({m \in 1..n : m \notin used}) = k

\* Names the objects a handler created (ref = 0), in page and element order.
AllocRefs(ps, used) ==
    LET zeroBefore(i, j) ==
            Cardinality({<<a, b>> \in UNION {{<<p, q>> : q \in 1..Len(ps[p].elements)} : p \in 1..Len(ps)} :
                            /\ ps[a].elements[b].ref = 0
                            /\ (a < i \/ (a = i /\ b <= j))})
    IN [i \in 1..Len(ps) |->
          [ps[i] EXCEPT !.elements =
              [j \in 1..Len(ps[i].elements) |->
                  IF ps[i].elements[j].ref = 0
                  THEN [ps[i].elements[j] EXCEPT !.ref = NthFree(used, zeroBefore(i, j))]
                  ELSE ps[i].elements[j]]]]

UsedRefs(ps) == (RefsOfPages(ps) \cup RefsOfHistory(history) \cup RefsOfClipboard(clipboard)) \ {0}

(* ------------------------------ documents ------------------------------ *)
TocElement(id) ==
    [id |-> id, ref |-> 0, type |-> "TOC", x |-> 40, y |-> 40,
     width |-> A4_WIDTH_PX - 80, height |-> TOC_HEIGHT, content |-> ""]

NewPage(id, type) == [id |-> id, type |-> type, elements |-> <<>>]

initialPages ==
    AllocRefs(<< NewPage(1, "cover"), NewPage(2, "white"),
                 [id |-> 3, type |-> "summary", elements |-> <<TocElement(4)>>],
                 NewPage(5, "standard"), NewPage(6, "back_cover") >>, {})

\* getCurrentPage: the page with the active id, else the first page, else none.
HasCurrentPage == \E i \in 1..Len(pages) : pages[i].id = currentPageId
currentElements ==
    IF HasCurrentPage THEN pages[FindIndexById(pages, currentPageId) + 1].elements
    ELSE IF Len(pages) > 0 THEN pages[1].elements ELSE <<>>

\* pages.map(p => p.id === currentPageId ? {...p, elements} : p)
WithCurrentElements(ps, els) ==
    [i \in 1..Len(ps) |-> IF ps[i].id = currentPageId THEN [ps[i] EXCEPT !.elements = els] ELSE ps[i]]

(* ------------------------------ structure ------------------------------ *)
IsTocKind(t) == t \in {"SEQUENCE_TITLE", "PART_TITLE"}

\* structureData.tocList.length: SEQUENCE_TITLE and PART_TITLE elements of standard pages.
TocLength(ps) ==
    LET n(i) == IF ps[i].type = "standard"
                THEN Cardinality({j \in 1..Len(ps[i].elements) : IsTocKind(ps[i].elements[j].type)})
                ELSE 0
        sum[i \in 0..Len(ps)] == IF i = 0 THEN 0 ELSE sum[i - 1] + n(i)
    IN sum[Len(ps)]

SummaryCount(ps) == Cardinality({i \in 1..Len(ps) : ps[i].type = "summary"})

\* Variant: the quotient rounded down.
RequiredPages_Floor(totalItems) == Max({1, totalItems \div MAX_TOC_ITEMS})

\* Math.max(1, Math.ceil(totalItems / MAX_TOC_ITEMS))
RequiredPages(totalItems) == Max({1, (totalItems + MAX_TOC_ITEMS - 1) \div MAX_TOC_ITEMS})

EffectDeps(ps) == <<TocLength(ps), SummaryCount(ps)>>
EffectPending == EffectDeps(pages) # effectDeps

(* ------------------------------- history ------------------------------- *)
\* Variant: the redo branch is kept.
HistoryAfterSave_NoTruncate(hist, idx, newPages) ==
    LET newHistory == Append(hist, newPages)
    IN IF Len(newHistory) > HISTORY_LIMIT THEN Tail(newHistory) ELSE newHistory

\* Variant: nothing is evicted.
HistoryAfterSave_NoEvict(hist, idx, newPages) == Append(SubSeq(hist, 1, idx + 1), newPages)

\* history.slice(0, historyIndex + 1), push, shift when longer than 50.
HistoryAfterSave(hist, idx, newPages) ==
    LET newHistory == Append(SubSeq(hist, 1, idx + 1), newPages)
    IN IF Len(newHistory) > HISTORY_LIMIT THEN Tail(newHistory) ELSE newHistory

\* The scenario log: each handler run and the page list it left (kept when logging).
Log(tag) == trace' = IF logging THEN Append(trace, [op |-> tag, pages |-> pages']) ELSE trace

\* saveToHistory(newPages), called with the history as it stands at the call.
saveToHistory(hist, newPages) ==
    /\ history' = HistoryAfterSave(hist, historyIndex, newPages)
    /\ historyIndex' = Len(history') - 1
    /\ pages' = newPages
    /\ nCommits' = nCommits + 1

\* Variant: the page list is set, nothing is saved.
updatePages_SetOnly(newPages) ==
    /\ pages' = AllocRefs(newPages, UsedRefs(newPages))
    /\ nCommits' = nCommits + 1
    /\ UNCHANGED <<history, historyIndex>>

updatePages(newPages) == saveToHistory(history, AllocRefs(newPages, UsedRefs(newPages)))

\* Variant: the cursor moves back, the page list stays.
handleUndo_KeepPages ==
    /\ IF historyIndex > 0
       THEN /\ historyIndex' = historyIndex - 1
            /\ pages' = pages
       ELSE UNCHANGED <<historyIndex, pages>>
    /\ Log("undo")
    /\ UNCHANGED <<currentPageId, history, selectedIds, clipboard, dragInfo, resizeState,
                   showGrid, toast, effectDeps, nextId, nCommits, logging, request>>

\* Variant: no test of the cursor.
handleUndo_Unguarded ==
    /\ historyIndex' = historyIndex - 1
    /\ pages' = IF historyIndex > 0 THEN history[historyIndex] ELSE pages
    /\ Log("undo")
    /\ UNCHANGED <<currentPageId, history, selectedIds, clipboard, dragInfo, resizeState,
                   showGrid, toast, effectDeps, nextId, nCommits, logging, request>>

\* Variant: redo never moves.
handleRedo_Stay ==
    /\ UNCHANGED <<historyIndex, pages>>
    /\ Log("redo")
    /\ UNCHANGED <<currentPageId, history, selectedIds, clipboard, dragInfo, resizeState,
                   showGrid, toast, effectDeps, nextId, nCommits, logging, request>>

handleUndo ==
    /\ IF historyIndex > 0
       THEN /\ historyIndex' = historyIndex - 1
            /\ pages' = history[historyIndex]
       ELSE UNCHANGED <<historyIndex, pages>>
    /\ Log("undo")
    /\ UNCHANGED <<currentPageId, history, selectedIds, clipboard, dragInfo, resizeState,
                   showGrid, toast, effectDeps, nextId, nCommits, logging, request>>

handleRedo ==
    /\ IF historyIndex < Len(history) - 1
       THEN /\ historyIndex' = historyIndex + 1
            /\ pages' = history[historyIndex + 2]
       ELSE UNCHANGED <<historyIndex, pages>>
    /\ Log("redo")
    /\ UNCHANGED <<currentPageId, history, selectedIds, clipboard, dragInfo, resizeState,
                   showGrid, toast, effectDeps, nextId, nCommits, logging, request>>

(* ------------------------------ page list ------------------------------ *)
handleAddPage ==
    LET newPage == NewPage(nextId, "standard")
        currentIndex == FindIndexById(pages, currentPageId)
        insert0 == IF currentIndex >= 0 THEN currentIndex + 1 ELSE Len(pages)
        backCoverIndex == FindIndexByType(pages, "back_cover")
        insertIndex == IF backCoverIndex # -1 /\ (currentIndex = backCoverIndex \/ insert0 > backCoverIndex)
                       THEN backCoverIndex ELSE insert0
    IN /\ updatePages(Splice(pages, insertIndex, newPage))
       /\ currentPageId' = newPage.id
       /\ nextId' = nextId + 1
       /\ Log("commit")
       /\ UNCHANGED <<selectedIds, clipboard, dragInfo, resizeState, showGrid, toast, effectDeps, logging, request>>

\* The navigator offers delete and duplicate on standard pages only.
StandardPageIds == {pages[i].id : i \in {k \in 1..Len(pages) : pages[k].type = "standard"}}

\* Variant: a refused deletion loses the active page.
handleDeletePage_RefuseSwitch(id) ==
    /\ id \in StandardPageIds
    /\ IF Len(pages) <= 1
       THEN /\ toast' = "error"
            /\ currentPageId' = NoId
            /\ UNCHANGED <<pages, history, historyIndex, nCommits>>
            /\ Log("refuse_delete")
       ELSE LET idx == FindIndexById(pages, id)
                newPages == SeqFilter(pages, IdsOf(pages) \ {id})
            IN /\ updatePages(newPages)
               /\ currentPageId' = IF currentPageId = id
                                   THEN newPages[Max({0, idx - 1}) + 1].id
                                   ELSE currentPageId
               /\ Log("commit")
               /\ UNCHANGED toast
    /\ UNCHANGED <<selectedIds, clipboard, dragInfo, resizeState, showGrid, effectDeps, nextId, logging, request>>

handleDeletePage(id) ==
    /\ id \in StandardPageIds
    /\ IF Len(pages) <= 1
       THEN /\ toast' = "error"
            /\ UNCHANGED <<pages, history, historyIndex, nCommits, currentPageId>>
            /\ Log("refuse_delete")
       ELSE LET idx == FindIndexById(pages, id)
                newPages == SeqFilter(pages, IdsOf(pages) \ {id})
            IN /\ updatePages(newPages)
               /\ currentPageId' = IF currentPageId = id
                                   THEN newPages[Max({0, idx - 1}) + 1].id
                                   ELSE currentPageId
               /\ Log("commit")
               /\ UNCHANGED toast
    /\ UNCHANGED <<selectedIds, clipboard, dragInfo, resizeState, showGrid, effectDeps, nextId, logging, request>>

handleDuplicatePage(id) ==
    /\ id \in StandardPageIds
    /\ LET idx == FindIndexById(pages, id)
           page == pages[idx + 1]
           n == Len(page.elements)
           newElements == [j \in 1..n |-> [page.elements[j] EXCEPT !.id = nextId + j - 1, !.ref = 0]]
           newPage == [id |-> nextId + n, type |-> page.type, elements |-> newElements]
       IN /\ updatePages(Splice(pages, idx + 1, newPage))
          /\ currentPageId' = newPage.id
          /\ nextId' = nextId + n + 1
    /\ Log("commit")
    /\ UNCHANGED <<selectedIds, clipboard, dragInfo, resizeState, showGrid, toast, effectDeps, logging, request>>

StructureTypes == {"cover", "white", "summary", "back_cover"}

handleToggleStructure(type) ==
    /\ type \in StructureTypes
    /\ IF \E i \in 1..Len(pages) : pages[i].type = type
       THEN LET deletedPage == pages[FindIndexByType(pages, type) + 1]
                newPages == SeqFilter(pages, {pages[i].id : i \in {k \in 1..Len(pages) : pages[k].type # type}})
            IN /\ updatePages(newPages)
               /\ currentPageId' = IF currentPageId = deletedPage.id
                                   THEN (IF Len(newPages) > 0 THEN newPages[1].id ELSE NoId)
                                   ELSE currentPageId
               /\ UNCHANGED nextId
       ELSE LET newPage == IF type = "summary"
                           THEN [id |-> nextId + 1, type |-> type, elements |-> <<TocElement(nextId)>>]
                           ELSE NewPage(nextId, type)
                coverIdx == FindIndexByType(pages, "cover")
                whiteIdx == FindIndexByType(pages, "white")
                insertIdx == IF whiteIdx # -1 THEN whiteIdx ELSE IF coverIdx # -1 THEN coverIdx ELSE -1
                newPages == CASE type = "cover" -> <<newPage>> \o pages
                              [] type = "white" -> Splice(pages, coverIdx + 1, newPage)
                              [] type = "summary" -> Splice(pages, insertIdx + 1, newPage)
                              [] type = "back_cover" -> Append(pages, newPage)
            IN /\ updatePages(newPages)
               /\ currentPageId' = newPage.id
               /\ nextId' = IF type = "summary" THEN nextId + 2 ELSE nextId + 1
    /\ Log("commit")
    /\ UNCHANGED <<selectedIds, clipboard, dragInfo, resizeState, showGrid, toast, effectDeps, logging, request>>

\* onSelectPage of the navigator.
onSelectPage(id) ==
    /\ id \in IdsOf(pages)
    /\ id # currentPageId
    /\ currentPageId' = id
    /\ UNCHANGED <<pages, history, historyIndex, selectedIds, clipboard, dragInfo, resizeState,
                   showGrid, toast, effectDeps, nextId, nCommits, logging, request>>
    /\ Log("select")

(* ------------------------ summary pagination --------------------------- *)
\* The effect body; it runs when tocList.length or the summary count changed.
RECURSIVE InsertSummaries(_, _, _, _)
InsertSummaries(ps, at, needed, id) ==
    IF needed = 0 THEN ps
    ELSE InsertSummaries(
            Splice(ps, at, [id |-> id, type |-> "summary", elements |-> <<TocElement(id + 1)>>]),
            at + 1, needed - 1, id + 2)

LastIndexByType(ps, t) ==
    IF \E i \in 1..Len(ps) : ps[i].type = t
    THEN Max({i \in 1..Len(ps) : ps[i].type = t}) - 1 ELSE -1

SyncedPages(ps, id) ==
    LET summaryPages == SeqFilter(ps, {ps[i].id : i \in {k \in 1..Len(ps) : ps[k].type = "summary"}})
        requiredPages == RequiredPages(TocLength(ps))
    IN IF Len(summaryPages) < requiredPages
       THEN InsertSummaries(ps, LastIndexByType(ps, "summary") + 1, requiredPages - Len(summaryPages), id)
       ELSE LET idsToRemove == {summaryPages[i].id : i \in (requiredPages + 1)..Len(summaryPages)}
            IN SeqFilter(ps, IdsOf(ps) \ idsToRemove)

summarySyncEffect ==
    /\ EffectPending
    /\ effectDeps' = EffectDeps(pages)
    /\ IF SummaryCount(pages) = 0 \/ SummaryCount(pages) = RequiredPages(TocLength(pages))
       THEN /\ UNCHANGED <<pages, history, historyIndex, nCommits, nextId>>
            /\ Log("effect")
       ELSE /\ updatePages(SyncedPages(pages, nextId))
            /\ nextId' = nextId + 2 * Max({0, RequiredPages(TocLength(pages)) - SummaryCount(pages)})
            /\ Log("commit")
    /\ UNCHANGED <<currentPageId, selectedIds, clipboard, dragInfo, resizeState, showGrid, toast, logging, request>>

(* ---------------------------- layout engine ---------------------------- *)
overlapsHorizontally(a, b) == a.x < b.x + b.width /\ a.x + a.width > b.x

\* [...elements].sort((a, b) => a.y - b.y): stable, ascending y.
InsertByY(sorted, e) ==
    LET k == Cardinality({i \in 1..Len(sorted) : sorted[i].y <= e.y})
    IN SubSeq(sorted, 1, k) \o <<e>> \o SubSeq(sorted, k + 1, Len(sorted))

RECURSIVE SortByY(_)
SortByY(s) == IF s = <<>> THEN <<>> ELSE InsertByY(SortByY(SubSeq(s, 1, Len(s) - 1)), s[Len(s)])

\* The floor under el made by the elements of placed it overlaps horizontally.
FloorOf(el, placed, base) ==
    Max({base} \cup {placed[j].y + placed[j].height + GAP :
                        j \in {k \in 1..Len(placed) : overlapsHorizontally(el, placed[k])}})

\* The loop of resolveCollisions: current.y is assigned in place (same object).
RECURSIVE ResolveFrom(_, _)
ResolveFrom(done, rest) ==
    IF rest = <<>> THEN done
    ELSE LET current == Head(rest)
         IN ResolveFrom(Append(done, [current EXCEPT !.y = FloorOf(current, done, current.y)]), Tail(rest))

\* Variant: an element is pushed to the bottom of the overlapping one, without the gap.
RECURSIVE ResolveFrom_NoGap(_, _)
ResolveFrom_NoGap(done, rest) ==
    IF rest = <<>> THEN done
    ELSE LET current == Head(rest)
             requiredTop == Max({current.y} \cup {done[j].y + done[j].height :
                                   j \in {k \in 1..Len(done) : overlapsHorizontally(current, done[k])}})
         IN ResolveFrom_NoGap(Append(done, [current EXCEPT !.y = requiredTop]), Tail(rest))

resolveCollisions_NoGap(elements) ==
    LET sorted == SortByY(elements)
        result == ResolveFrom_NoGap(<<>>, sorted)
    IN IF result # sorted THEN result ELSE elements

\* Variant: an element is put on its floor, the top margin when nothing is above it.
RECURSIVE ResolveFrom_Pull(_, _)
ResolveFrom_Pull(done, rest) ==
    IF rest = <<>> THEN done
    ELSE LET current == Head(rest)
         IN ResolveFrom_Pull(Append(done, [current EXCEPT !.y = FloorOf(current, done, MARGIN_TOP)]), Tail(rest))

resolveCollisions_Pull(elements) ==
    LET sorted == SortByY(elements)
        result == ResolveFrom_Pull(<<>>, sorted)
    IN IF result # sorted THEN result ELSE elements

\* Variant: an element under an overlapping one is pushed 20px further down.
RECURSIVE ResolveFrom_Further(_, _)
ResolveFrom_Further(done, rest) ==
    IF rest = <<>> THEN done
    ELSE LET current == Head(rest)
             pushed == \E j \in 1..Len(done) : overlapsHorizontally(current, done[j])
         IN ResolveFrom_Further(
                Append(done, [current EXCEPT !.y = FloorOf(current, done, current.y) + (IF pushed THEN GAP ELSE 0)]),
                Tail(rest))

resolveCollisions_Further(elements) ==
    LET sorted == SortByY(elements)
        result == ResolveFrom_Further(<<>>, sorted)
    IN IF result # sorted THEN result ELSE elements

resolveCollisions(elements) ==
    LET sorted == SortByY(elements)
        result == ResolveFrom(<<>>, sorted)
    IN IF result # sorted THEN result ELSE elements

\* The objects resolveCollisions wrote to: ref -> new y, for named objects.
CollisionWrites(elements) ==
    LET sorted == SortByY(elements)
        result == ResolveFrom(<<>>, sorted)
    IN {<<result[i].ref, result[i].y>> : i \in {k \in 1..Len(sorted) : result[k].y # sorted[k].y /\ sorted[k].ref # 0}}

WriteElement(el, writes) ==
    IF \E w \in writes : w[1] = el.ref
    THEN [el EXCEPT !.y = (CHOOSE w \in writes : w[1] = el.ref)[2]]
    ELSE el
WriteElements(els, writes) == [j \in 1..Len(els) |-> WriteElement(els[j], writes)]
WritePages(ps, writes) == [i \in 1..Len(ps) |-> [ps[i] EXCEPT !.elements = WriteElements(ps[i].elements, writes)]]
WriteHistory(h, writes) == [k \in 1..Len(h) |-> WritePages(h[k], writes)]

RECURSIVE GravityFrom(_, _)
GravityFrom(processed, rest) ==
    IF rest = <<>> THEN processed
    ELSE LET el == Head(rest)
             newY == FloorOf(el, processed, MARGIN_TOP)
         IN IF el.y <= MARGIN_TOP /\ el.type = "SEQUENCE_TITLE"
            THEN GravityFrom(Append(processed, el), Tail(rest))
            ELSE IF newY < el.y
                 THEN GravityFrom(Append(processed, [el EXCEPT !.y = newY, !.ref = 0]), Tail(rest))
                 ELSE GravityFrom(Append(processed, el), Tail(rest))

\* Variant: every element is pulled up to the top margin.
applyGravity_ToMargin(elements) ==
    LET sorted == SortByY(elements)
    IN [k \in 1..Len(sorted) |->
           IF sorted[k].y <= MARGIN_TOP /\ sorted[k].type = "SEQUENCE_TITLE" THEN sorted[k]
           ELSE IF MARGIN_TOP < sorted[k].y THEN [sorted[k] EXCEPT !.y = MARGIN_TOP, !.ref = 0]
                ELSE sorted[k]]

\* Variant: every element is put on its floor, also when the floor is below it.
RECURSIVE GravityFrom_Place(_, _)
GravityFrom_Place(processed, rest) ==
    IF rest = <<>> THEN processed
    ELSE LET el == Head(rest)
             newY == FloorOf(el, processed, MARGIN_TOP)
         IN IF el.y <= MARGIN_TOP /\ el.type = "SEQUENCE_TITLE"
            THEN GravityFrom_Place(Append(processed, el), Tail(rest))
            ELSE GravityFrom_Place(Append(processed, [el EXCEPT !.y = newY, !.ref = 0]), Tail(rest))

applyGravity_Place(elements) == GravityFrom_Place(<<>>, SortByY(elements))

\* Variant: an element is pulled up by at most 100px in one pass.
RECURSIVE GravityFrom_Step(_, _)
GravityFrom_Step(processed, rest) ==
    IF rest = <<>> THEN processed
    ELSE LET el == Head(rest)
             newY == Max({FloorOf(el, processed, MARGIN_TOP), el.y - 100})
         IN IF el.y <= MARGIN_TOP /\ el.type = "SEQUENCE_TITLE"
            THEN GravityFrom_Step(Append(processed, el), Tail(rest))
            ELSE IF newY < el.y
                 THEN GravityFrom_Step(Append(processed, [el EXCEPT !.y = newY, !.ref = 0]), Tail(rest))
                 ELSE GravityFrom_Step(Append(processed, el), Tail(rest))

applyGravity_Step(elements) == GravityFrom_Step(<<>>, SortByY(elements))

applyGravity(elements) == GravityFrom(<<>>, SortByY(elements))

NoPos == [found |-> FALSE, x |-> 0, y |-> 0]
Pos(x, y) == [found |-> TRUE, x |-> x, y |-> y]

\* Step 2 of findSmartPosition: first gap, scanning from the top margin.
RECURSIVE GapScan(_, _, _, _)
GapScan(rest, currentY, height, defaultX) ==
    IF rest = <<>>
    THEN IF currentY + height <= A4_HEIGHT_PX - MARGIN_BOTTOM THEN Pos(defaultX, currentY) ELSE NoPos
    ELSE LET el == Head(rest)
         IN IF el.y - currentY >= height + GAP
            THEN Pos(defaultX, currentY)
            ELSE GapScan(Tail(rest), Max({currentY, el.y + el.height + GAP}), height, defaultX)

\* Variant: a gap is taken when the element fits in it, without the 20px under it.
RECURSIVE GapScan_Tight(_, _, _, _)
GapScan_Tight(rest, currentY, height, defaultX) ==
    IF rest = <<>>
    THEN IF currentY + height <= A4_HEIGHT_PX - MARGIN_BOTTOM THEN Pos(defaultX, currentY) ELSE NoPos
    ELSE LET el == Head(rest)
         IN IF el.y - currentY >= height
            THEN Pos(defaultX, currentY)
            ELSE GapScan_Tight(Tail(rest), Max({currentY, el.y + el.height + GAP}), height, defaultX)

findSmartPosition_Tight(elements, width, height, defaultX) ==
    LET MAX_Y == A4_HEIGHT_PX - MARGIN_BOTTOM
        lowestPoint == IF Len(elements) > 0
                       THEN Max({elements[i].y + elements[i].height : i \in 1..Len(elements)})
                       ELSE MARGIN_TOP
        targetY == IF Len(elements) > 0 THEN lowestPoint + GAP ELSE MARGIN_TOP
    IN IF targetY + height <= MAX_Y
       THEN Pos(defaultX, targetY)
       ELSE GapScan_Tight(SortByY(elements), MARGIN_TOP, height, defaultX)

\* Variant: the gap scan starts at the top edge of the page.
findSmartPosition_ScanFromTop(elements, width, height, defaultX) ==
    LET MAX_Y == A4_HEIGHT_PX - MARGIN_BOTTOM
        lowestPoint == IF Len(elements) > 0
                       THEN Max({elements[i].y + elements[i].height : i \in 1..Len(elements)})
                       ELSE MARGIN_TOP
        targetY == IF Len(elements) > 0 THEN lowestPoint + GAP ELSE MARGIN_TOP
    IN IF targetY + height <= MAX_Y
       THEN Pos(defaultX, targetY)
       ELSE GapScan(SortByY(elements), 0, height, defaultX)

findSmartPosition(elements, width, height, defaultX) ==
    LET MAX_Y == A4_HEIGHT_PX - MARGIN_BOTTOM
        lowestPoint == IF Len(elements) > 0
                       THEN Max({elements[i].y + elements[i].height : i \in 1..Len(elements)})
                       ELSE MARGIN_TOP
        targetY == IF Len(elements) > 0 THEN lowestPoint + GAP ELSE MARGIN_TOP
    IN IF targetY + height <= MAX_Y
       THEN Pos(defaultX, targetY)
       ELSE GapScan(SortByY(elements), MARGIN_TOP, height, defaultX)

(* ------------------------------ structure ------------------------------ *)
\* A label is the text of a template literal: the code points of its literal
\* prefix, the numbers joined by ".", and its literal tail.
\* `S<U+221A><U+00E2>QUENCE ${n}` (App) and `S<U+00C9>QUENCE ${n}` (export service).
EditorSequenceLabel(n) ==
    [chars |-> <<83, 8730, 226, 81, 85, 69, 78, 67, 69, 32>>, nums |-> <<n>>, tail |-> ""]
ExportSequenceLabel(n) ==
    [chars |-> <<83, 201, 81, 85, 69, 78, 67, 69, 32>>, nums |-> <<n>>, tail |-> ""]
\* `${a} -`, `${a}.${b} -`, `${a}.${b}.${c} -`
DottedLabel(nums) == [chars |-> <<>>, nums |-> nums, tail |-> " -"]

NoStructure ==
    [numberingMap |-> <<>>, tocList |-> <<>>, sequenceCount |-> 0, partCount |-> 0,
     h3Count |-> 0, h4Count |-> 0, standardPageCount |-> 0]

\* Variant: a SEQUENCE_TITLE leaves the part counter as it is.
EditorElement_KeepPart(acc, el, page) ==
    CASE el.type = "SEQUENCE_TITLE" ->
            LET label == EditorSequenceLabel(acc.sequenceCount + 1)
            IN [acc EXCEPT !.sequenceCount = @ + 1, !.h3Count = 0, !.h4Count = 0,
                           !.numberingMap = (el.id :> label) @@ @,
                           !.tocList = Append(@, [pageNum |-> acc.standardPageCount, title |-> el.content,
                                                  label |-> label, type |-> "SEQUENCE_TITLE", id |-> el.id,
                                                  targetPageId |-> page.id])]
      [] el.type = "PART_TITLE" ->
            LET label == DottedLabel(<<acc.partCount + 1>>)
            IN [acc EXCEPT !.partCount = @ + 1, !.h3Count = 0, !.h4Count = 0,
                           !.numberingMap = (el.id :> label) @@ @,
                           !.tocList = Append(@, [pageNum |-> acc.standardPageCount, title |-> el.content,
                                                  label |-> label, type |-> "PART_TITLE", id |-> el.id,
                                                  targetPageId |-> page.id])]
      [] el.type = "H3_TITLE" ->
            [acc EXCEPT !.h3Count = @ + 1, !.h4Count = 0,
                        !.numberingMap = (el.id :> DottedLabel(<<acc.partCount, acc.h3Count + 1>>)) @@ @]
      [] el.type = "H4_TITLE" ->
            [acc EXCEPT !.h4Count = @ + 1,
                        !.numberingMap = (el.id :> DottedLabel(<<acc.partCount, acc.h3Count, acc.h4Count + 1>>)) @@ @]
      [] OTHER -> acc

\* The body of sortedElements.forEach in structureData (App).
EditorElement(acc, el, page) ==
    CASE el.type = "SEQUENCE_TITLE" ->
            LET label == EditorSequenceLabel(acc.sequenceCount + 1)
            IN [acc EXCEPT !.sequenceCount = @ + 1, !.partCount = 0, !.h3Count = 0, !.h4Count = 0,
                           !.numberingMap = (el.id :> label) @@ @,
                           !.tocList = Append(@, [pageNum |-> acc.standardPageCount, title |-> el.content,
                                                  label |-> label, type |-> "SEQUENCE_TITLE", id |-> el.id,
                                                  targetPageId |-> page.id])]
      [] el.type = "PART_TITLE" ->
            LET label == DottedLabel(<<acc.partCount + 1>>)
            IN [acc EXCEPT !.partCount = @ + 1, !.h3Count = 0, !.h4Count = 0,
                           !.numberingMap = (el.id :> label) @@ @,
                           !.tocList = Append(@, [pageNum |-> acc.standardPageCount, title |-> el.content,
                                                  label |-> label, type |-> "PART_TITLE", id |-> el.id,
                                                  targetPageId |-> page.id])]
      [] el.type = "H3_TITLE" ->
            [acc EXCEPT !.h3Count = @ + 1, !.h4Count = 0,
                        !.numberingMap = (el.id :> DottedLabel(<<acc.partCount, acc.h3Count + 1>>)) @@ @]
      [] el.type = "H4_TITLE" ->
            [acc EXCEPT !.h4Count = @ + 1,
                        !.numberingMap = (el.id :> DottedLabel(<<acc.partCount, acc.h3Count, acc.h4Count + 1>>)) @@ @]
      [] OTHER -> acc

RECURSIVE EditorElements(_, _, _)
EditorElements(acc, els, page) ==
    IF els = <<>> THEN acc ELSE EditorElements(EditorElement(acc, Head(els), page), Tail(els), page)

\* The body of pages.forEach in structureData.
RECURSIVE EditorPages(_, _)
EditorPages(acc, ps) ==
    IF ps = <<>> THEN acc
    ELSE IF Head(ps).type = "standard"
         THEN EditorPages(EditorElements([acc EXCEPT !.standardPageCount = @ + 1],
                                         SortByY(Head(ps).elements), Head(ps)), Tail(ps))
         ELSE EditorPages(acc, Tail(ps))

\* Variant: every page is read, whatever its type.
RECURSIVE EditorPages_AllPages(_, _)
EditorPages_AllPages(acc, ps) ==
    IF ps = <<>> THEN acc
    ELSE EditorPages_AllPages(EditorElements([acc EXCEPT !.standardPageCount = @ + 1],
                                             SortByY(Head(ps).elements), Head(ps)), Tail(ps))

structureData_AllPages(ps) ==
    LET r == EditorPages_AllPages(NoStructure, ps)
    IN [numberingMap |-> r.numberingMap, tocList |-> r.tocList]

structureData(ps) ==
    LET r == EditorPages(NoStructure, ps)
    IN [numberingMap |-> r.numberingMap, tocList |-> r.tocList]

\* The body of sortedElements.forEach in computeStructure (export service).
ExportElement(acc, el, page, pageIndex) ==
    CASE el.type = "SEQUENCE_TITLE" ->
            LET label == ExportSequenceLabel(acc.sequenceCount + 1)
            IN [acc EXCEPT !.sequenceCount = @ + 1, !.partCount = 0, !.h3Count = 0, !.h4Count = 0,
                           !.numberingMap = (el.id :> label) @@ @,
                           !.tocList = Append(@, [pageIndex |-> pageIndex, pageNum |-> acc.standardPageCount,
                                                  title |-> el.content, label |-> label,
                                                  type |-> "SEQUENCE_TITLE", targetPageId |-> page.id])]
      [] el.type = "PART_TITLE" ->
            LET label == DottedLabel(<<acc.partCount + 1>>)
            IN [acc EXCEPT !.partCount = @ + 1, !.h3Count = 0, !.h4Count = 0,
                           !.numberingMap = (el.id :> label) @@ @,
                           !.tocList = Append(@, [pageIndex |-> pageIndex, pageNum |-> acc.standardPageCount,
                                                  title |-> el.content, label |-> label,
                                                  type |-> "PART_TITLE", targetPageId |-> page.id])]
      [] el.type = "H3_TITLE" ->
            [acc EXCEPT !.h3Count = @ + 1, !.h4Count = 0,
                        !.numberingMap = (el.id :> DottedLabel(<<acc.partCount, acc.h3Count + 1>>)) @@ @]
      [] el.type = "H4_TITLE" ->
            [acc EXCEPT !.h4Count = @ + 1,
                        !.numberingMap = (el.id :> DottedLabel(<<acc.partCount, acc.h3Count, acc.h4Count + 1>>)) @@ @]
      [] OTHER -> acc

RECURSIVE ExportElements(_, _, _, _)
ExportElements(acc, els, page, pageIndex) ==
    IF els = <<>> THEN acc
    ELSE ExportElements(ExportElement(acc, Head(els), page, pageIndex), Tail(els), page, pageIndex)

\* The body of pages.forEach((page, pageIndex) => ...) in computeStructure.
RECURSIVE ExportPages(_, _, _)
ExportPages(acc, ps, pageIndex) ==
    IF ps = <<>> THEN acc
    ELSE IF Head(ps).type = "standard"
         THEN ExportPages(ExportElements([acc EXCEPT !.standardPageCount = @ + 1],
                                         SortByY(Head(ps).elements), Head(ps), pageIndex),
                          Tail(ps), pageIndex + 1)
         ELSE ExportPages(acc, Tail(ps), pageIndex + 1)

computeStructure(ps) ==
    LET r == ExportPages(NoStructure, ps, 0)
    IN [numberingMap |-> r.numberingMap, tocList |-> r.tocList]

\* handleExportHTML: the document is written to a file; only the toast changes.
handleExportHTML ==
    /\ toast' = "success"
    /\ UNCHANGED <<pages, currentPageId, history, historyIndex, selectedIds, clipboard, dragInfo,
                   resizeState, showGrid, effectDeps, nextId, nCommits, logging, request>>
    /\ Log("export")

(* ------------------------------ elements ------------------------------- *)
\* Default size, x and content by type (addElement).
Dims(type) ==
    CASE type = "TEXT" -> [width |-> 300, height |-> 100, x |-> 40, content |-> "Texte..."]
      [] type = "SECTION" -> [width |-> 400, height |-> 300, x |-> 40, content |-> ""]
      [] type = "QCM" -> [width |-> 400, height |-> 350, x |-> 40, content |-> ""]
      [] type = "VIDEO" -> [width |-> 400, height |-> 225, x |-> 40, content |-> ""]
      [] type = "QR_CODE" -> [width |-> 150, height |-> 150, x |-> 40, content |-> "https://www.google.com"]
      [] type = "CONNECT_DOTS" -> [width |-> 400, height |-> 400, x |-> 40, content |-> ""]
      [] type = "AUDIO" -> [width |-> 300, height |-> 60, x |-> 40, content |-> ""]
      [] type = "SEQUENCE_TITLE" -> [width |-> A4_WIDTH_PX, height |-> 150, x |-> 0, content |-> "TITRE SEQUENCE"]
      [] type = "PART_TITLE" -> [width |-> 500, height |-> 60, x |-> 40, content |-> "TITRE PARTIE"]
      [] type = "H3_TITLE" -> [width |-> 400, height |-> 50, x |-> 40, content |-> "Sous-titre H3"]
      [] type = "H4_TITLE" -> [width |-> 300, height |-> 40, x |-> 40, content |-> "Sous-titre H4"]
      [] type = "TOC" -> [width |-> A4_WIDTH_PX - 80, height |-> TOC_HEIGHT, x |-> 40, content |-> ""]
      [] OTHER -> [width |-> 200, height |-> 200, x |-> 40, content |-> ""]

\* Variant: the new page always follows the active page.
OverflowIndex_NoClamp(ps, strict) ==
    LET currentIndex == FindIndexById(ps, currentPageId)
    IN IF strict /\ currentIndex < 0 THEN Len(ps) ELSE currentIndex + 1

\* The page list and target of an insertion that opens a new standard page.
OverflowIndex(ps, strict) ==
    LET currentIndex == FindIndexById(ps, currentPageId)
        insert0 == IF strict /\ currentIndex < 0 THEN Len(ps) ELSE currentIndex + 1
        backCoverIndex == FindIndexByType(ps, "back_cover")
    IN IF backCoverIndex # -1 /\ ((strict /\ currentIndex = backCoverIndex) \/ insert0 > backCoverIndex)
       THEN backCoverIndex ELSE insert0

\* Variant: a declined confirmation clears the selection.
addElementCancel_Deselect ==
    /\ selectedIds' = {}
    /\ UNCHANGED <<pages, currentPageId, history, historyIndex, clipboard, dragInfo,
                   resizeState, showGrid, toast, effectDeps, nextId, nCommits, logging, request>>
    /\ Log("cancel")

\* window.confirm answered no: return before any state is set.
addElementCancel ==
    /\ UNCHANGED <<pages, currentPageId, history, historyIndex, selectedIds, clipboard, dragInfo,
                   resizeState, showGrid, toast, effectDeps, nextId, nCommits, logging, request>>
    /\ Log("cancel")

addElement(type, confirm) ==
    LET d == Dims(type)
        id == nextId
        hasH1 == type = "SEQUENCE_TITLE" /\
                 \E j \in 1..Len(currentElements) : currentElements[j].type = "SEQUENCE_TITLE"
        smart == findSmartPosition(currentElements, d.width, d.height, d.x)
        newPage == hasH1 \/ ~smart.found
        targetPages == IF newPage
                       THEN Splice(pages, OverflowIndex(pages, hasH1), NewPage(nextId + 1, "standard"))
                       ELSE pages
        targetPageId == IF newPage THEN nextId + 1 ELSE currentPageId
        pos == IF newPage THEN Pos(d.x, MARGIN_TOP) ELSE smart
        newElement == [id |-> id, ref |-> 0, type |-> type, x |-> pos.x, y |-> pos.y,
                       width |-> d.width, height |-> d.height, content |-> d.content]
        updatedPages == [i \in 1..Len(targetPages) |->
                            IF targetPages[i].id = targetPageId
                            THEN [targetPages[i] EXCEPT !.elements = Append(@, newElement)]
                            ELSE targetPages[i]]
    IN IF hasH1 /\ ~confirm
       THEN addElementCancel
       ELSE /\ updatePages(updatedPages)
            /\ currentPageId' = targetPageId
            /\ selectedIds' = {id}
            /\ nextId' = IF newPage THEN nextId + 2 ELSE nextId + 1
            /\ toast' = IF hasH1 THEN "success" ELSE IF newPage THEN "info" ELSE toast
            /\ Log("commit")
            /\ UNCHANGED <<clipboard, dragInfo, resizeState, showGrid, effectDeps, logging, request>>

updateElement(id, updates) ==
    /\ updatePages([i \in 1..Len(pages) |->
           IF pages[i].id = currentPageId
           THEN [pages[i] EXCEPT !.elements =
                   [j \in 1..Len(@) |->
                       IF @[j].id = id
                       THEN [f \in DOMAIN @[j] |->
                               IF f = "ref" THEN 0
                               ELSE IF f \in DOMAIN updates THEN updates[f] ELSE @[j][f]]
                       ELSE @[j]]]
           ELSE pages[i]])
    /\ Log("commit")
    /\ UNCHANGED <<currentPageId, selectedIds, clipboard, dragInfo, resizeState, showGrid, toast,
                   effectDeps, nextId, logging, request>>

\* The width and height fields of the properties panel, on the first selected element.
PropertiesTargets == {currentElements[j].id : j \in {k \in 1..Len(currentElements) : currentElements[k].id \in selectedIds}}

\* PropertiesPanel handleAIImprove, up to the await: a single selected TEXT
\* element. The continuation keeps the onUpdate of the render the click
\* happened in, that is updateElement with that render's pages, currentPageId,
\* history and historyIndex.
handleAIImprove ==
    /\ ~request.pending
    /\ \E id \in PropertiesTargets :
          /\ Cardinality(PropertiesTargets) = 1
          /\ \E j \in 1..Len(currentElements) : currentElements[j].id = id /\ currentElements[j].type = "TEXT"
          /\ request' = [pending |-> TRUE, id |-> id, pages |-> pages, currentPageId |-> currentPageId,
                          history |-> history, historyIndex |-> historyIndex]
    /\ UNCHANGED <<pages, currentPageId, history, historyIndex, selectedIds, clipboard, dragInfo,
                   resizeState, showGrid, toast, effectDeps, nextId, nCommits, logging>>
    /\ Log("request")

\* The continuation of handleAIImprove: onUpdate(firstEl.id, {content: improved}).
handleAIImproveDone ==
    /\ request.pending
    /\ LET mapped == [i \in 1..Len(request.pages) |->
                         IF request.pages[i].id = request.currentPageId
                         THEN [request.pages[i] EXCEPT !.elements =
                                 [j \in 1..Len(@) |->
                                     IF @[j].id = request.id
                                     THEN [@[j] EXCEPT !.ref = 0, !.content = "improved"]
                                     ELSE @[j]]]
                         ELSE request.pages[i]]
           newPages == AllocRefs(mapped, UsedRefs(mapped))
       IN /\ history' = HistoryAfterSave(request.history, request.historyIndex, newPages)
          /\ historyIndex' = Len(history') - 1
          /\ pages' = newPages
          /\ nCommits' = nCommits + 1
    /\ request' = NoRequest
    /\ UNCHANGED <<currentPageId, selectedIds, clipboard, dragInfo, resizeState, showGrid, toast,
                   effectDeps, nextId, logging>>
    /\ Log("completed")

deleteElement(id) ==
    /\ updatePages([i \in 1..Len(pages) |->
           IF pages[i].id = currentPageId
           THEN [pages[i] EXCEPT !.elements = applyGravity(SeqFilter(@, IdsOf(@) \ {id}))]
           ELSE pages[i]])
    /\ selectedIds' = selectedIds \ {id}
    /\ Log("delete")
    /\ UNCHANGED <<currentPageId, clipboard, dragInfo, resizeState, showGrid, toast, effectDeps, nextId, logging, request>>

\* Toolbar: selectedIds.forEach(id => deleteElement(id)), and the same loop
\* over the selected elements in the properties panel. Every call reads the
\* pages, history and historyIndex of the render the handler was created in,
\* so the state set by the last call is the one that stays; the selection is
\* updated functionally, so every id leaves it. The last id is the one
\* selected last, and any selected id can be that one.
onDelete ==
    /\ selectedIds # {}
    /\ \E last \in selectedIds :
          updatePages([i \in 1..Len(pages) |->
              IF pages[i].id = currentPageId
              THEN [pages[i] EXCEPT !.elements = applyGravity(SeqFilter(@, IdsOf(@) \ {last}))]
              ELSE pages[i]])
    /\ selectedIds' = {}
    /\ Log("delete_each")
    /\ UNCHANGED <<currentPageId, clipboard, dragInfo, resizeState, showGrid, toast, effectDeps, nextId, logging, request>>

(* --------------------------- pointer gestures -------------------------- *)
AllElementIds == UNION {IdsOf(pages[i].elements) : i \in 1..Len(pages)}
GestureActive == dragInfo.active \/ resizeState.isResizing

handleMouseDown(id, shiftKey) ==
    LET clicked == {pages[i].id : i \in {k \in 1..Len(pages) : id \in IdsOf(pages[k].elements)}}
        newSelection == IF shiftKey
                        THEN (IF id \in selectedIds THEN selectedIds \ {id} ELSE selectedIds \cup {id})
                        ELSE (IF id \in selectedIds THEN selectedIds ELSE {id})
        selectedEls == SeqFilter(currentElements, newSelection)
    IN /\ id \in AllElementIds
       /\ currentPageId' = IF clicked # {} /\ currentPageId \notin clicked
                           THEN pages[Min({i \in 1..Len(pages) : id \in IdsOf(pages[i].elements)})].id
                           ELSE currentPageId
       /\ selectedIds' = newSelection
       /\ dragInfo' = [active |-> TRUE,
                       initialPos |-> [j \in 1..Len(selectedEls) |->
                                          [id |-> selectedEls[j].id, x |-> selectedEls[j].x, y |-> selectedEls[j].y]]]
       /\ UNCHANGED <<pages, history, historyIndex, clipboard, resizeState, showGrid, toast,
                      effectDeps, nextId, nCommits, logging, request>>
       /\ Log("down")

\* The resize handle is drawn on selected elements.
handleResizeDown(id) ==
    /\ id \in selectedIds
    /\ \E i \in 1..Len(pages) : \E j \in 1..Len(pages[i].elements) :
          /\ pages[i].elements[j].id = id
          /\ resizeState' = [isResizing |-> TRUE, initialWidth |-> pages[i].elements[j].width,
                             initialHeight |-> pages[i].elements[j].height, elementId |-> id]
    /\ UNCHANGED <<pages, currentPageId, history, historyIndex, selectedIds, clipboard, dragInfo,
                   showGrid, toast, effectDeps, nextId, nCommits, logging, request>>
    /\ Log("down")

\* Math.round(value / GRID_SIZE) * GRID_SIZE when the grid is shown.
snapToGrid(value) ==
    IF showGrid THEN ((2 * value + GRID_SIZE) \div (2 * GRID_SIZE)) * GRID_SIZE ELSE value

DraggedTo(el, item, dx, dy) ==
    LET nx0 == snapToGrid(item.x + dx)
        ny0 == snapToGrid(item.y + dy)
        nx1 == IF nx0 < 0 THEN 0 ELSE nx0
        nx2 == IF nx1 + el.width > A4_WIDTH_PX THEN A4_WIDTH_PX - el.width ELSE nx1
        ny1 == IF ny0 < 0 THEN 0 ELSE ny0
        ny2 == IF ny1 + el.height > A4_HEIGHT_PX THEN A4_HEIGHT_PX - el.height ELSE ny1
    IN IF el.type = "SEQUENCE_TITLE"
       THEN [el EXCEPT !.x = 0, !.y = 0, !.ref = 0]
       ELSE [el EXCEPT !.x = nx2, !.y = ny2, !.ref = 0]

ResizedTo(el, dx, dy) ==
    LET nw0 == snapToGrid(Max({MIN_RESIZE, resizeState.initialWidth + dx}))
        nh0 == snapToGrid(Max({MIN_RESIZE, resizeState.initialHeight + dy}))
        nw == IF el.x + nw0 > A4_WIDTH_PX THEN A4_WIDTH_PX - el.x ELSE nw0
        nh == IF el.y + nh0 > A4_HEIGHT_PX THEN A4_HEIGHT_PX - el.y ELSE nh0
    IN IF nw > 0 /\ nh > 0 THEN [el EXCEPT !.width = nw, !.height = nh, !.ref = 0] ELSE el

\* Variant: every preview is saved to history.
handleMouseMove_Save(dx, dy) ==
    /\ GestureActive
    /\ LET moved == [j \in 1..Len(currentElements) |->
                       LET el == currentElements[j]
                           items == {k \in 1..Len(dragInfo.initialPos) : dragInfo.initialPos[k].id = el.id}
                       IN IF items # {} THEN DraggedTo(el, dragInfo.initialPos[Max(items)], dx, dy) ELSE el]
           resized == [j \in 1..Len(currentElements) |->
                          IF currentElements[j].id = resizeState.elementId
                          THEN ResizedTo(currentElements[j], dx, dy) ELSE currentElements[j]]
           newElements == IF dragInfo.active THEN moved ELSE resized
           newPages == WithCurrentElements(pages, newElements)
       IN updatePages(newPages)
    /\ Log("move")
    /\ UNCHANGED <<currentPageId, selectedIds, clipboard, dragInfo, resizeState,
                   showGrid, toast, effectDeps, nextId, logging, request>>

\* A preview: setPages only, nothing is saved to history.
handleMouseMove(dx, dy) ==
    /\ GestureActive
    /\ LET moved == [j \in 1..Len(currentElements) |->
                       LET el == currentElements[j]
                           items == {k \in 1..Len(dragInfo.initialPos) : dragInfo.initialPos[k].id = el.id}
                       IN IF items # {} THEN DraggedTo(el, dragInfo.initialPos[Max(items)], dx, dy) ELSE el]
           resized == [j \in 1..Len(currentElements) |->
                          IF currentElements[j].id = resizeState.elementId
                          THEN ResizedTo(currentElements[j], dx, dy) ELSE currentElements[j]]
           newElements == IF dragInfo.active THEN moved ELSE resized
           newPages == WithCurrentElements(pages, newElements)
       IN pages' = AllocRefs(newPages, UsedRefs(newPages))
    /\ Log("move")
    /\ UNCHANGED <<currentPageId, history, historyIndex, selectedIds, clipboard, dragInfo, resizeState,
                   showGrid, toast, effectDeps, nextId, nCommits, logging, request>>

\* Drop: gravity, then collision resolution, then one commit.  A resize
\* ends with a commit of the pages as they are.
handleMouseUp ==
    /\ GestureActive
    /\ IF dragInfo.active
       THEN LET pulled == applyGravity(currentElements)
                updatedElements == resolveCollisions(pulled)
                writes == CollisionWrites(pulled)
                newPages == WithCurrentElements(WritePages(pages, writes), updatedElements)
            IN /\ saveToHistory(WriteHistory(history, writes), AllocRefs(newPages, UsedRefs(newPages)))
               /\ clipboard' = WriteElements(clipboard, writes)
               /\ dragInfo' = NoDrag
               /\ UNCHANGED resizeState
       ELSE /\ resizeState' = NoResize
            /\ updatePages(pages)
            /\ UNCHANGED <<clipboard, dragInfo>>
    /\ Log("commit")
    /\ UNCHANGED <<currentPageId, selectedIds, showGrid, toast, effectDeps, nextId, logging, request>>

(* ------------------------------ keyboard ------------------------------- *)
handleKeyDelete ==
    /\ selectedIds # {}
    /\ updatePages([i \in 1..Len(pages) |->
           IF pages[i].id = currentPageId
           THEN [pages[i] EXCEPT !.elements = applyGravity(SeqFilter(@, IdsOf(@) \ selectedIds))]
           ELSE pages[i]])
    /\ selectedIds' = {}
    /\ Log("delete")
    /\ UNCHANGED <<currentPageId, clipboard, dragInfo, resizeState, showGrid, toast, effectDeps, nextId, logging, request>>

\* An empty copy is left out: it would make paste commit an unchanged page list.
handleKeyCopy ==
    /\ SeqFilter(currentElements, selectedIds) # <<>>
    /\ clipboard' = SeqFilter(currentElements, selectedIds)
    /\ toast' = "success"
    /\ UNCHANGED <<pages, currentPageId, history, historyIndex, selectedIds, dragInfo, resizeState,
                   showGrid, effectDeps, nextId, nCommits, logging, request>>
    /\ Log("copy")

Pasted(el, id) ==
    LET x0 == el.x + PASTE_OFFSET
        y0 == el.y + PASTE_OFFSET
    IN [el EXCEPT !.id = id, !.ref = 0,
                  !.x = IF x0 + el.width > A4_WIDTH_PX THEN A4_WIDTH_PX - el.width ELSE x0,
                  !.y = IF y0 + el.height > A4_HEIGHT_PX THEN A4_HEIGHT_PX - el.height ELSE y0]

handleKeyPaste ==
    /\ clipboard # <<>>
    /\ LET newElements == [j \in 1..Len(clipboard) |-> Pasted(clipboard[j], nextId + j - 1)]
       IN /\ updatePages(WithCurrentElements(pages, currentElements \o newElements))
          /\ selectedIds' = IdsOf(newElements)
    /\ nextId' = nextId + Len(clipboard)
    /\ toast' = "success"
    /\ Log("commit")
    /\ UNCHANGED <<currentPageId, clipboard, dragInfo, resizeState, showGrid, effectDeps, logging, request>>

\* Toolbar: setShowGrid(!showGrid)
onToggleGrid ==
    /\ showGrid' = ~showGrid
    /\ UNCHANGED <<pages, currentPageId, history, historyIndex, selectedIds, clipboard, dragInfo,
                   resizeState, toast, effectDeps, nextId, nCommits, logging, request>>
    /\ Log("grid")

(* ---------------------------- project files ---------------------------- *)
TitlesPerPage == 12
\* A saved project: k summary pages, then standard pages holding n PART_TITLE
\* elements stacked from the top margin, ids counted from base.
ProjectPages(k, n, base) ==
    LET m == Max({1, (n + TitlesPerPage - 1) \div TitlesPerPage})
        title(t) == [id |-> base + 2 * k + m + t - 1, ref |-> 0, type |-> "PART_TITLE", x |-> 40,
                     y |-> MARGIN_TOP + ((t - 1) % TitlesPerPage) * (60 + GAP),
                     width |-> 500, height |-> 60, content |-> "TITRE PARTIE"]
        titlesOn(s) == [u \in 1..Min({TitlesPerPage, n - (s - 1) * TitlesPerPage}) |-> title((s - 1) * TitlesPerPage + u)]
    IN [i \in 1..k |-> [id |-> base + 2 * (i - 1), type |-> "summary",
                        elements |-> <<TocElement(base + 2 * (i - 1) + 1)>>]]
       \o [s \in 1..m |-> [id |-> base + 2 * k + s - 1, type |-> "standard",
                           elements |-> IF n = 0 THEN <<>> ELSE titlesOn(s)]]

ProjectSize(k, n) == 2 * k + Max({1, (n + TitlesPerPage - 1) \div TitlesPerPage}) + n

\* A saved book: cover, white page, one summary page, standard pages holding n
\* titles, back cover.
BookPages(n, base) ==
    <<NewPage(base, "cover"), NewPage(base + 1, "white")>>
    \o ProjectPages(1, n, base + 2)
    \o <<NewPage(base + 2 + ProjectSize(1, n), "back_cover")>>

BookSize(n) == ProjectSize(1, n) + 3

\* reader.onload of handleLoadProject; file.kind is "invalid" (JSON.parse
\* throws), "no_pages" (no page array) or "pages".
handleLoadProject(file) ==
    /\ CASE file.kind = "invalid" ->
              /\ toast' = "error"
              /\ UNCHANGED <<pages, history, historyIndex, nCommits, currentPageId>>
              /\ Log("refused")
         [] file.kind = "no_pages" ->
              /\ UNCHANGED <<pages, history, historyIndex, nCommits, currentPageId, toast>>
              /\ Log("refused")
         [] file.kind = "pages" ->
              /\ updatePages(file.pages)
              /\ Log("commit")
              /\ IF Len(file.pages) > 0
                 THEN currentPageId' = file.pages[1].id /\ toast' = "success"
                 ELSE UNCHANGED currentPageId /\ toast' = "error"
    /\ nextId' = nextId + file.size
    /\ UNCHANGED <<selectedIds, clipboard, dragInfo, resizeState, showGrid, effectDeps, logging, request>>

(* ---------------------------- specifications --------------------------- *)
InitWith(log) ==
    /\ pages = initialPages
    /\ currentPageId = initialPages[1].id
    /\ history = <<initialPages>>
    /\ historyIndex = 0
    /\ selectedIds = {}
    /\ clipboard = <<>>
    /\ dragInfo = NoDrag
    /\ resizeState = NoResize
    /\ showGrid = FALSE
    /\ toast = "none"
    /\ effectDeps = EffectDeps(initialPages)
    /\ nextId = 7
    /\ nCommits = 0
    /\ trace = <<>>
    /\ logging = log
    /\ request = NoRequest

Init == InitWith(FALSE)

\* Inputs of the events.
AddTypes == {"TEXT", "SEQUENCE_TITLE", "PART_TITLE"}
Deltas == {<<0, -140>>, <<0, 100>>, <<400, 0>>}
PanelUpdates == {[width |-> 900], [height |-> 50]}
ProjectFiles ==
    {[kind |-> "invalid", pages |-> <<>>, size |-> 0],
     [kind |-> "no_pages", pages |-> <<>>, size |-> 0],
     [kind |-> "pages", pages |-> <<>>, size |-> 0],
     [kind |-> "pages", pages |-> ProjectPages(0, 0, nextId), size |-> ProjectSize(0, 0)],
     [kind |-> "pages", pages |-> ProjectPages(1, 2 * MAX_TOC_ITEMS, nextId), size |-> ProjectSize(1, 2 * MAX_TOC_ITEMS)],
     [kind |-> "pages", pages |-> ProjectPages(3, MAX_TOC_ITEMS + 1, nextId), size |-> ProjectSize(3, MAX_TOC_ITEMS + 1)]}

\* Toolbar, navigator and panel events: the pointer is free.
ClickEvents ==
    \/ \E t \in AddTypes, confirm \in BOOLEAN : addElement(t, confirm)
    \/ \E id \in PropertiesTargets, u \in PanelUpdates : updateElement(id, u)
    \/ \E id \in PropertiesTargets : deleteElement(id)
    \/ handleAddPage
    \/ \E id \in StandardPageIds : handleDeletePage(id)
    \/ \E id \in StandardPageIds : handleDuplicatePage(id)
    \/ \E t \in StructureTypes : handleToggleStructure(t)
    \/ \E f \in ProjectFiles : handleLoadProject(f)
    \/ \E id \in AllElementIds : handleMouseDown(id, FALSE)
    \/ \E id \in selectedIds : handleResizeDown(id)
    \/ onToggleGrid

KeyCommits ==
    \/ handleKeyDelete
    \/ handleKeyPaste

\* The effect may commit once past the budget of the user's commits.
Next ==
    \/ ((nCommits <= MaxCommits \/ SummaryCount(pages) = RequiredPages(TocLength(pages))) /\ summarySyncEffect)
    \/ /\ ~EffectPending
       /\ \/ (nCommits < MaxCommits /\ ~GestureActive /\ ClickEvents)
          \/ (nCommits < MaxCommits /\ KeyCommits)
          \/ (nCommits < MaxCommits /\ ~GestureActive /\ \E id \in IdsOf(pages) : onSelectPage(id))
          \/ (nCommits < MaxCommits /\ handleKeyCopy)
          \/ \E d \in Deltas : handleMouseMove(d[1], d[2])
          \/ handleMouseUp
          \/ handleUndo
          \/ handleRedo

Spec == Init /\ [][Next]_vars

\* Element operations on the active page: insert, drag, resize, delete.
LayoutTypes == {"TEXT", "SEQUENCE_TITLE"}
LayoutNext ==
    \/ summarySyncEffect
    \/ /\ ~EffectPending
       /\ \/ /\ nCommits < MaxLayoutCommits
             /\ ~GestureActive
             /\ \/ \E t \in LayoutTypes, confirm \in BOOLEAN : addElement(t, confirm)
                \/ \E id \in PropertiesTargets : deleteElement(id)
                \/ \E id \in AllElementIds : handleMouseDown(id, FALSE)
                \/ \E id \in selectedIds : handleResizeDown(id)
          \/ \E d \in Deltas : handleMouseMove(d[1], d[2])
          \/ handleMouseUp
          \/ handleUndo
          \/ handleRedo

SpecLayout == Init /\ [][LayoutNext]_vars

\* Insertions and the page list: toolbar and navigator events, undo, redo.
InsertTypes == {"TEXT", "SEQUENCE_TITLE", "TOC"}
InsertNext ==
    \/ ((nCommits <= MaxInsertCommits \/ SummaryCount(pages) = RequiredPages(TocLength(pages))) /\ summarySyncEffect)
    \/ /\ ~EffectPending
       /\ \/ /\ nCommits < MaxInsertCommits
             /\ \/ \E t \in InsertTypes, confirm \in BOOLEAN : addElement(t, confirm)
                \/ handleAddPage
                \/ \E id \in StandardPageIds : handleDuplicatePage(id)
                \/ \E t \in StructureTypes : handleToggleStructure(t)
                \/ \E id \in IdsOf(pages) : onSelectPage(id)
          \/ handleUndo
          \/ handleRedo

SpecInsert == Init /\ [][InsertNext]_vars

\* The same events after at most MaxStructureCommits commits, and the load of
\* a book whose summary page is full.
BookFile == [kind |-> "pages", pages |-> BookPages(MAX_TOC_ITEMS, nextId), size |-> BookSize(MAX_TOC_ITEMS)]
StructureNext ==
    \/ ((nCommits <= MaxStructureCommits \/ SummaryCount(pages) = RequiredPages(TocLength(pages))) /\ summarySyncEffect)
    \/ /\ ~EffectPending
       /\ \/ /\ nCommits < MaxStructureCommits
             /\ \/ \E t \in InsertTypes, confirm \in BOOLEAN : addElement(t, confirm)
                \/ handleAddPage
                \/ \E id \in StandardPageIds : handleDuplicatePage(id)
                \/ \E t \in StructureTypes : handleToggleStructure(t)
                \/ \E id \in IdsOf(pages) : onSelectPage(id)
                \/ handleLoadProject(BookFile)
          \/ handleUndo
          \/ handleRedo

SpecStructure == Init /\ [][StructureNext]_vars

\* Page structure: navigator events, project loads and the summary effect.
PagesNext ==
    \/ ((nCommits <= MaxPageCommits \/ SummaryCount(pages) = RequiredPages(TocLength(pages))) /\ summarySyncEffect)
    \/ /\ ~EffectPending
       /\ \/ /\ nCommits < MaxPageCommits
             /\ \/ handleAddPage
                \/ \E id \in StandardPageIds : handleDeletePage(id)
                \/ \E id \in StandardPageIds : handleDuplicatePage(id)
                \/ \E t \in StructureTypes : handleToggleStructure(t)
                \/ \E f \in ProjectFiles : handleLoadProject(f)
                \/ \E id \in IdsOf(pages) : onSelectPage(id)
                \/ addElement("PART_TITLE", TRUE)
          \/ handleUndo
          \/ handleRedo

SpecPages == Init /\ [][PagesNext]_vars

\* History walk: commits in a row, undo and redo at any time; the budget's
\* last commits may also start from inside the history (a redo branch).
HistNext ==
    \/ /\ nCommits < MaxHistCommits
       /\ historyIndex = Len(history) - 1 \/ nCommits >= MaxHistCommits - 1
       /\ handleAddPage
    \/ handleUndo
    \/ handleRedo

SpecHist == Init /\ [][HistNext]_vars

\* Logged scenarios of at most MaxTrace handler runs.
ScenarioTypes == {"summary"}
ScenarioNext ==
    \/ summarySyncEffect
    \/ /\ ~EffectPending
       /\ Len(trace) < MaxTrace
       /\ \/ handleAddPage
          \/ addElement("PART_TITLE", TRUE)
          \/ \E confirm \in BOOLEAN : addElement("SEQUENCE_TITLE", confirm)
          \/ \E id \in StandardPageIds : handleDeletePage(id)
          \/ \E t \in ScenarioTypes : handleToggleStructure(t)
          \/ \E f \in ProjectFiles : handleLoadProject(f)
          \/ handleUndo
          \/ handleRedo

SpecScenario == InitWith(TRUE) /\ [][ScenarioNext]_vars

\* Placement on a loaded page: a one-page project whose elements lie inside
\* the page is loaded, then elements are inserted.
PlacementBoxes ==
    {b \in [y : {0, 40, 500, 1000}, height : {10, 100, 500}] : b.y + b.height <= A4_HEIGHT_PX}
PlacementPage(boxes, base) ==
    <<[id |-> base, type |-> "standard",
       elements |-> [j \in 1..Len(boxes) |->
                        [id |-> base + j, ref |-> 0, type |-> "TEXT", x |-> 40, y |-> boxes[j].y,
                         width |-> 300, height |-> boxes[j].height, content |-> "Texte..."]]]>>
PlacementFiles ==
    {[kind |-> "pages", pages |-> PlacementPage(boxes, nextId), size |-> Len(boxes) + 1] :
        boxes \in {<<>>} \cup {<<a>> : a \in PlacementBoxes}
                  \cup {<<a, b>> : a \in PlacementBoxes, b \in PlacementBoxes}}
PlacementTypes == {"TEXT", "SEQUENCE_TITLE", "TOC"}
PlacementNext ==
    \/ summarySyncEffect
    \/ /\ ~EffectPending
       /\ \/ /\ nCommits = 0
             /\ \E f \in PlacementFiles : handleLoadProject(f)
          \/ /\ nCommits < MaxPlacementCommits
             /\ \E t \in PlacementTypes, confirm \in BOOLEAN : addElement(t, confirm)

SpecPlacement == Init /\ [][PlacementNext]_vars

\* Numbering of a loaded book: a project of two standard pages, with or
\* without a white page holding titles between them, is loaded; its headings
\* are stored in reading order or in reverse; then headings are inserted and
\* the book is exported.
NumberingKinds == {"SEQUENCE_TITLE", "PART_TITLE", "H3_TITLE", "H4_TITLE", "TEXT"}
NumberingStreams == UNION {[1..n -> NumberingKinds] : n \in 0..MaxHeadings}
NumberingElement(id, type, row) ==
    [id |-> id, ref |-> 0, type |-> type, x |-> Dims(type).x, y |-> MARGIN_TOP + row * (150 + GAP),
     width |-> Dims(type).width, height |-> IF type = "SEQUENCE_TITLE" THEN 150 ELSE 60,
     content |-> Dims(type).content]
Reverse(s) == [j \in 1..Len(s) |-> s[Len(s) + 1 - j]]
NumberingPages(stream, k, middle, reversed, base) ==
    LET n == Len(stream)
        first == [j \in 1..k |-> NumberingElement(base + 4 + j, stream[j], j - 1)]
        second == [j \in 1..(n - k) |-> NumberingElement(base + 4 + k + j, stream[k + j], j - 1)]
        stored(els) == IF reversed THEN Reverse(els) ELSE els
    IN <<[id |-> base, type |-> "standard", elements |-> stored(first)]>>
       \o (IF middle
           THEN <<[id |-> base + 1, type |-> "white",
                   elements |-> stored(<<NumberingElement(base + 2, "SEQUENCE_TITLE", 0),
                                         NumberingElement(base + 3, "PART_TITLE", 1)>>)]>>
           ELSE <<>>)
       \o <<[id |-> base + 4, type |-> "standard", elements |-> stored(second)]>>
NumberingFiles ==
    UNION {{[kind |-> "pages", pages |-> NumberingPages(stream, k, middle, reversed, nextId),
             size |-> Len(stream) + 5] :
               k \in 0..Len(stream), middle \in BOOLEAN, reversed \in BOOLEAN} :
           stream \in NumberingStreams}
NumberingNext ==
    \/ summarySyncEffect
    \/ /\ ~EffectPending
       /\ \/ /\ nCommits = 0
             /\ \E f \in NumberingFiles : handleLoadProject(f)
          \/ /\ 0 < nCommits /\ nCommits < MaxNumberingCommits
             /\ \E t \in NumberingKinds, confirm \in BOOLEAN : addElement(t, confirm)
          \/ handleExportHTML

SpecNumbering == Init /\ [][NumberingNext]_vars

\* Compaction of a loaded page: a one-page project is loaded whose elements
\* stand in a left column, a right column or across the page, at, above or
\* below the top margin, stored by column or in reverse; then elements are
\* pressed and released, which runs applyGravity and resolveCollisions.
GravityColumns ==
    {[type |-> "TEXT", x |-> 40, width |-> 300], [type |-> "TEXT", x |-> 400, width |-> 300],
     [type |-> "TEXT", x |-> 40, width |-> 714], [type |-> "SEQUENCE_TITLE", x |-> 0, width |-> A4_WIDTH_PX]}
GravityBoxes == [column : GravityColumns, y : {0, 40, 300}, height : {50, 400}]
BoxRank(b) == (b.column.x + b.column.width) * 10000 + b.y * 10 + b.height \div 50
GravityLists ==
    UNION {{f \in [1..n -> GravityBoxes] : \A i, j \in 1..n : i < j => BoxRank(f[i]) < BoxRank(f[j])} :
           n \in 0..MaxBoxes}
GravityPage(boxes, reversed, base) ==
    LET els == [j \in 1..Len(boxes) |->
                   [id |-> base + j, ref |-> 0, type |-> boxes[j].column.type, x |-> boxes[j].column.x,
                    y |-> boxes[j].y, width |-> boxes[j].column.width, height |-> boxes[j].height,
                    content |-> Dims(boxes[j].column.type).content]]
    IN <<[id |-> base, type |-> "standard", elements |-> IF reversed THEN Reverse(els) ELSE els]>>
GravityFiles ==
    {[kind |-> "pages", pages |-> GravityPage(boxes, reversed, nextId), size |-> Len(boxes) + 1] :
        boxes \in GravityLists, reversed \in BOOLEAN}
GravityNext ==
    \/ summarySyncEffect
    \/ /\ ~EffectPending
       /\ \/ /\ nCommits = 0
             /\ \E f \in GravityFiles : handleLoadProject(f)
          \/ /\ 0 < nCommits /\ nCommits < MaxGravityCommits
             /\ ~GestureActive
             /\ \E id \in AllElementIds : handleMouseDown(id, FALSE)
          \/ handleMouseUp

SpecGravity == Init /\ [][GravityNext]_vars

\* Asynchronous completions: a text is inserted and sent for improvement;
\* pages and elements are added, and undo and redo pressed, before the answer
\* arrives. Scenarios of at most MaxTrace handler runs.
AsyncNext ==
    \/ summarySyncEffect
    \/ /\ Len(trace) < MaxTrace
       /\ handleAIImproveDone
    \/ /\ ~EffectPending
       /\ Len(trace) < MaxTrace
       /\ \/ \E t \in LayoutTypes : addElement(t, TRUE)
          \/ handleAIImprove
          \/ handleAddPage
          \/ handleUndo
          \/ handleRedo

SpecAsync == InitWith(TRUE) /\ [][AsyncNext]_vars

\* Deletion on a loaded page: a one-page project of short boxes at the left
\* margin is loaded, elements are selected by click and shift-click, pages are
\* added, and the selection is deleted from the toolbar, the properties panel
\* or the keyboard. Scenarios of at most MaxDeleteTrace handler runs.
DeleteLists ==
    {boxes \in GravityLists :
        /\ Len(boxes) < MaxBoxes
        /\ \A j \in 1..Len(boxes) : boxes[j].height = 50 /\ boxes[j].y # 0 /\ boxes[j].column.x = 40}
DeleteFiles ==
    {[kind |-> "pages", pages |-> GravityPage(boxes, reversed, nextId), size |-> Len(boxes) + 1] :
        boxes \in DeleteLists, reversed \in BOOLEAN}
DeleteNext ==
    \/ summarySyncEffect
    \/ /\ ~EffectPending
       /\ Len(trace) < MaxDeleteTrace
       /\ \/ /\ nCommits = 0
             /\ \E f \in DeleteFiles : handleLoadProject(f)
          \/ /\ 0 < nCommits /\ nCommits < MaxDeleteCommits
             /\ ~GestureActive
             /\ \/ \E id \in AllElementIds, shiftKey \in BOOLEAN : handleMouseDown(id, shiftKey)
                \/ onDelete
                \/ \E id \in PropertiesTargets : Cardinality(selectedIds) = 1 /\ deleteElement(id)
                \/ handleKeyDelete
                \/ handleAddPage
          \/ handleMouseUp
          \/ handleUndo
          \/ handleRedo

SpecDelete == InitWith(TRUE) /\ [][DeleteNext]_vars

\* Logged pointer gestures: insertions, press, move, release, undo, redo, in
\* scenarios of at most MaxTrace handler runs.
GestureNext ==
    \/ summarySyncEffect
    \/ /\ ~EffectPending
       /\ Len(trace) < MaxTrace
       /\ \/ /\ ~GestureActive
             /\ \/ \E t \in LayoutTypes, confirm \in BOOLEAN : addElement(t, confirm)
                \/ \E id \in AllElementIds : handleMouseDown(id, FALSE)
                \/ \E id \in selectedIds : handleResizeDown(id)
          \/ \E d \in Deltas : handleMouseMove(d[1], d[2])
          \/ handleMouseUp
          \/ handleUndo
          \/ handleRedo

SpecGesture == InitWith(TRUE) /\ [][GestureNext]_vars

(* -------------------------------- claims ------------------------------- *)
AllElementsOf(ps) == UNION {{ps[i].elements[j] : j \in 1..Len(ps[i].elements)} : i \in 1..Len(ps)}
Ops == [i \in 1..Len(trace) |-> trace[i].op]

\* C1: outside a drag or resize preview the cursor lies inside the history and
\* the page list is exactly the snapshot stored at the cursor.
ThmC1 ==
    ~GestureActive =>
        /\ 0 <= historyIndex
        /\ historyIndex < Len(history)
        /\ pages = history[historyIndex + 1]

\* An undo took the page list back to the snapshot before the last one.
WitC1 ==
    /\ ~GestureActive
    /\ nCommits >= 2
    /\ historyIndex = Len(history) - 2
    /\ pages = history[historyIndex + 1]
    /\ pages # history[Len(history)]

\* C2: no step changes a snapshot that stays in the history: every entry up to
\* the cursor that a step keeps is left as it was.
CexC2 ==
    [][\A k \in 1..Len(history) :
          (k <= Len(history') /\ Len(history) < HISTORY_LIMIT /\ (k <= historyIndex + 1 \/ nCommits' = nCommits))
              => history'[k] = history[k]]_vars

overlapsVertically(a, b) == a.y < b.y + b.height /\ a.y + a.height > b.y
\* Every commit so far was made at the end of the history, and the cursor is there.
OnlyCommits == Len(history) = nCommits + 1 /\ historyIndex = Len(history) - 1

\* C3: after inserts, drags, resizes and deletes, each completed, no page holds
\* two elements that overlap both horizontally and vertically.
CexC3 ==
    (~GestureActive /\ OnlyCommits) =>
        \A i \in 1..Len(pages) : \A j, k \in 1..Len(pages[i].elements) :
            j < k => ~(/\ overlapsHorizontally(pages[i].elements[j], pages[i].elements[k])
                       /\ overlapsVertically(pages[i].elements[j], pages[i].elements[k]))

\* C4: every element of every committed document lies inside the page.
InPage(e) == e.x >= 0 /\ e.y >= 0 /\ e.x + e.width <= A4_WIDTH_PX /\ e.y + e.height <= A4_HEIGHT_PX
ThmC5 ==
    [][nCommits' = nCommits + 1 =>
          LET kept == Append(SubSeq(history, 1, historyIndex + 1), pages')
          IN /\ history' = IF Len(kept) > HISTORY_LIMIT THEN SubSeq(kept, 2, Len(kept)) ELSE kept
             /\ historyIndex' = Len(history') - 1]_vars

\* C5 as stated: the history after a commit is the old entries 0..c followed
\* by the new document.
CexC5 ==
    [][nCommits' = nCommits + 1 =>
          /\ history' = Append(SubSeq(history, 1, historyIndex + 1), pages')
          /\ historyIndex' = Len(history') - 1]_vars

\* Entries were evicted, and then a commit from inside the history dropped a redo branch.
WitC5 ==
    /\ nCommits = MaxHistCommits
    /\ Len(history) < HISTORY_LIMIT
    /\ historyIndex = Len(history) - 1

\* Commits in a row, each adding one page: the last snapshot has a page per commit.
LinearRun == Len(history[Len(history)]) = Len(initialPages) + nCommits

\* C6: the history never holds more than 50 entries; after more than 50
\* commits in a row it holds exactly the 50 latest documents in order, each
\* undo moves the cursor back by one, and at cursor 0 the page list is the
\* oldest retained document.
ThmC6 ==
    /\ [](Len(history) <= HISTORY_LIMIT)
    /\ []((nCommits > HISTORY_LIMIT /\ LinearRun) =>
            /\ Len(history) = HISTORY_LIMIT
            /\ \A k \in 1..HISTORY_LIMIT :
                  Len(history[k]) = Len(initialPages) + nCommits - (HISTORY_LIMIT - k)
            /\ pages = history[historyIndex + 1])
    /\ [][(nCommits' = nCommits /\ historyIndex' < historyIndex) => historyIndex' = historyIndex - 1]_vars

\* After more than 50 commits in a row, undo has reached the oldest retained document.
WitC6 ==
    /\ nCommits > HISTORY_LIMIT
    /\ LinearRun
    /\ Len(history) = HISTORY_LIMIT
    /\ historyIndex = 0
    /\ Len(pages) = Len(initialPages) + nCommits - (HISTORY_LIMIT - 1)

\* C7: an undo at cursor 0 and a redo at the last index change neither pages,
\* history nor historyIndex.
ThmC7 ==
    [][(/\ Len(trace') = Len(trace) + 1
        /\ \/ trace'[Len(trace')].op = "undo" /\ historyIndex = 0
           \/ trace'[Len(trace')].op = "redo" /\ historyIndex = Len(history) - 1)
          => /\ pages' = pages
             /\ history' = history
             /\ historyIndex' = historyIndex]_vars

\* An undo at cursor 0, then a redo at the last index, ran on the initial document.
WitC7 ==
    /\ Ops = <<"undo", "redo">>
    /\ historyIndex = 0
    /\ Len(history) = 1
    /\ pages = initialPages

ThreeCommitsUndoRedo == Ops = <<"commit", "commit", "commit", "undo", "redo">>

\* C8 (as amended): after exactly three commits, undo then redo leaves the
\* document of commit #3.
ThmC8 == ThreeCommitsUndoRedo => pages = trace[3].pages

\* C8 as stated: after exactly three commits, undo then redo leaves the
\* document of commit #2.
CexC8 == ThreeCommitsUndoRedo => pages = trace[2].pages

\* Three commits with different documents, then undo, then redo.
WitC8 ==
    /\ ThreeCommitsUndoRedo
    /\ trace[2].pages # trace[3].pages
    /\ trace[4].pages = trace[2].pages
    /\ pages = trace[3].pages

\* max(1, ceil(L / 22))
SummaryTarget(L) == IF L <= MAX_TOC_ITEMS THEN 1 ELSE ((L - 1) \div MAX_TOC_ITEMS) + 1

\* C9: once the effect has run for the present TOC length and summary count,
\* the count is 0 or max(1, ceil(L / 22)); a run that finds no summary page or
\* the right count commits nothing, any other run commits the right count.
ThmC9 ==
    /\ [](~EffectPending =>
            \/ SummaryCount(pages) = 0
            \/ SummaryCount(pages) = SummaryTarget(TocLength(pages)))
    /\ [][effectDeps' # effectDeps =>
            IF SummaryCount(pages) = 0 \/ SummaryCount(pages) = SummaryTarget(TocLength(pages))
            THEN pages' = pages /\ history' = history /\ nCommits' = nCommits
            ELSE /\ nCommits' = nCommits + 1
                 /\ TocLength(pages') = TocLength(pages)
                 /\ SummaryCount(pages') = SummaryTarget(TocLength(pages))]_vars

\* A document with 44 TOC entries was brought from one summary page to two.
WitC9 ==
    /\ TocLength(pages) = 2 * MAX_TOC_ITEMS
    /\ SummaryCount(pages) = 2
    /\ ~EffectPending
    /\ nCommits = 2
    /\ SummaryCount(history[historyIndex]) = 1

\* C10: the document always has at least one page.
CexC10 == Len(pages) >= 1

\* A step of addElement that was not cancelled: it commits and selects the new id.
AddStep == nCommits' = nCommits + 1 /\ selectedIds' = {nextId}
\* An insertion that made a page.
OverflowStep == AddStep /\ Len(pages') = Len(pages) + 1

\* C11: after an addElement that was not cancelled the new element is on
\* exactly one page of the document.
CexC11 ==
    [][AddStep => Cardinality({i \in 1..Len(pages') : nextId \in IdsOf(pages'[i].elements)}) = 1]_vars

\* C12: an overflowing insertion appends exactly one history entry; the new
\* page holds the new element and nothing else, no snapshot holds the page
\* without the element, and the new page becomes the active page.
ThmC12 ==
    [][OverflowStep =>
          LET kept == Append(SubSeq(history, 1, historyIndex + 1), pages')
          IN /\ history' = IF Len(kept) > HISTORY_LIMIT THEN Tail(kept) ELSE kept
             /\ \E i \in 1..Len(pages') :
                   /\ pages'[i].id = nextId + 1
                   /\ pages'[i].type = "standard"
                   /\ IdsOf(pages'[i].elements) = {nextId}
                   /\ Len(pages'[i].elements) = 1
             /\ \A k \in 1..Len(history') : \A i \in 1..Len(history'[k]) :
                   history'[k][i].id = nextId + 1 => nextId \in IdsOf(history'[k][i].elements)
             /\ currentPageId' = nextId + 1]_vars

\* An insertion overflowed: the active page is a page made together with its only element.
WitC12 ==
    /\ nCommits >= 1
    /\ pages = history[historyIndex + 1]
    /\ \E i \in 1..Len(pages) :
          /\ pages[i].id = currentPageId
          /\ Len(pages[i].elements) = 1
          /\ pages[i].elements[1].id + 1 = pages[i].id
          /\ pages[i].elements[1].id \in selectedIds

\* C13: the page of an overflow goes to index min(currentIndex + 1,
\* backCoverIndex), is otherwise empty, and holds the new element at (defaultX, 40).
CexC13 ==
    [][OverflowStep =>
          LET currentIndex == FindIndexById(pages, currentPageId)
              backCoverIndex == FindIndexByType(pages, "back_cover")
              expected == IF backCoverIndex # -1 THEN Min({currentIndex + 1, backCoverIndex})
                          ELSE currentIndex + 1
              page == pages'[expected + 1]
          IN /\ page.id = nextId + 1
             /\ Len(page.elements) = 1
             /\ page.elements[1].id = nextId
             /\ page.elements[1].x = Dims(page.elements[1].type).x
             /\ page.elements[1].y = MARGIN_TOP]_vars

\* The step just logged ran the handler outcome named tag.
Logged(tag) == Len(trace') = Len(trace) + 1 /\ trace'[Len(trace')].op = tag

\* C14: declining the confirmation of a second SEQUENCE_TITLE changes nothing:
\* pages, history, cursor, active page and selection stay as they were and no
\* page (no id) is created.
ThmC14 ==
    [][Logged("cancel") =>
          /\ \E j \in 1..Len(currentElements) : currentElements[j].type = "SEQUENCE_TITLE"
          /\ pages' = pages
          /\ history' = history
          /\ historyIndex' = historyIndex
          /\ currentPageId' = currentPageId
          /\ selectedIds' = selectedIds
          /\ nextId' = nextId]_vars

\* A title was inserted and selected, then a second one was declined.
WitC14 ==
    /\ Ops = <<"commit", "cancel">>
    /\ pages = trace[1].pages
    /\ selectedIds # {}
    /\ \E j \in 1..Len(currentElements) :
          currentElements[j].type = "SEQUENCE_TITLE" /\ currentElements[j].id \in selectedIds

\* C15: deleting the only page of a document is refused: pages, history,
\* cursor and active page stay as they were and an error notification is
\* raised.
ThmC15 ==
    [][Logged("refuse_delete") =>
              /\ Len(pages) = 1
              /\ pages' = pages
              /\ history' = history
              /\ historyIndex' = historyIndex
              /\ currentPageId' = currentPageId
              /\ toast' = "error"]_vars

\* A one-page project was loaded and the deletion of its page was refused.
WitC15 ==
    /\ Ops = <<"commit", "effect", "refuse_delete">>
    /\ Len(pages) = 1
    /\ pages = trace[1].pages
    /\ currentPageId = pages[1].id
    /\ toast = "error"

\* C16: a back cover, when present, is the last page of the document.
ThmC16 == \A i \in 1..Len(pages) : pages[i].type = "back_cover" => i = Len(pages)

\* The back cover was the active page and filled up; the page opened for the
\* next element sits just before it.
WitC16 ==
    /\ Len(pages) >= 2
    /\ pages[Len(pages)].type = "back_cover"
    /\ Len(pages[Len(pages)].elements) >= 1
    /\ pages[Len(pages) - 1].type = "standard"
    /\ pages[Len(pages) - 1].id = currentPageId
    /\ Len(pages[Len(pages) - 1].elements) = 1
    /\ pages[Len(pages) - 1].elements[1].id + 1 = currentPageId

\* C17: a cover, when present, is the first page of the document.
CexC17 == \A i \in 1..Len(pages) : pages[i].type = "cover" => i = 1

\* C18: the summary pages are contiguous and start right after the white page,
\* or right after the cover when there is no white page.
CexC18 ==
    LET summaries == {i \in 1..Len(pages) : pages[i].type = "summary"}
        whites == {i \in 1..Len(pages) : pages[i].type = "white"}
        covers == {i \in 1..Len(pages) : pages[i].type = "cover"}
        first == Min(summaries)
    IN summaries # {} =>
          /\ summaries = first..(first + Cardinality(summaries) - 1)
          /\ whites # {} => first - 1 \in whites
          /\ whites = {} /\ covers # {} => first - 1 \in covers

\* C19: in every committed document each summary page holds exactly one
\* element, a TOC element at (40, 40) of size 714 x 1043.
CexC19 ==
    \A k \in 1..Len(history) : \A i \in 1..Len(history[k]) :
        history[k][i].type = "summary" =>
            /\ Len(history[k][i].elements) = 1
            /\ history[k][i].elements[1].type = "TOC"
            /\ history[k][i].elements[1].x = 40
            /\ history[k][i].elements[1].y = 40
            /\ history[k][i].elements[1].width = A4_WIDTH_PX - 80
            /\ history[k][i].elements[1].height = TOC_HEIGHT

\* Requested sizes and default x: the defaults of addElement and the extremes
\* the claim allows.
PlacementRequests ==
    {q \in [width : {1, 300, A4_WIDTH_PX - 40, A4_WIDTH_PX}, height : {1, 100, TOC_HEIGHT}, x : {0, 40}] :
        q.width <= A4_WIDTH_PX - q.x}
LowestPoint(elements) == Max({elements[i].y + elements[i].height : i \in 1..Len(elements)})

TocFields(item) == <<item.label, item.title, item.type, item.pageNum, item.targetPageId>>
CexC21 ==
    LET editor == structureData(pages)
        export == computeStructure(pages)
    IN /\ editor.numberingMap = export.numberingMap
       /\ Len(editor.tocList) = Len(export.tocList)
       /\ \A i \in 1..Len(editor.tocList) : TocFields(editor.tocList[i]) = TocFields(export.tocList[i])

\* The elements of the standard pages in reading order: page order, then
\* ascending y.
RECURSIVE ReadingOrder(_)
ReadingOrder(ps) ==
    IF ps = <<>> THEN <<>>
    ELSE (IF Head(ps).type = "standard" THEN SortByY(Head(ps).elements) ELSE <<>>)
         \o ReadingOrder(Tail(ps))

\* The number of elements of type kind among s[1..j] after the last element
\* whose type is in resets.
CountSince(s, j, kind, resets) ==
    LET last == Max({0} \cup {i \in 1..j : s[i].type \in resets})
    IN Cardinality({i \in (last + 1)..j : s[i].type = kind})

\* C22: in reading order SEQUENCE_TITLE numbers count 1, 2, 3, ...; a
\* PART_TITLE's number counts the parts since the last SEQUENCE_TITLE; an
\* H3_TITLE's the h3 titles since the last SEQUENCE_TITLE or PART_TITLE; an
\* H4_TITLE's the h4 titles since the last SEQUENCE_TITLE, PART_TITLE or
\* H3_TITLE; page boundaries reset nothing.
ThmC22 ==
    LET s == ReadingOrder(pages)
        numberingMap == structureData(pages).numberingMap
        part(j) == CountSince(s, j, "PART_TITLE", {"SEQUENCE_TITLE"})
        h3(j) == CountSince(s, j, "H3_TITLE", {"SEQUENCE_TITLE", "PART_TITLE"})
        h4(j) == CountSince(s, j, "H4_TITLE", {"SEQUENCE_TITLE", "PART_TITLE", "H3_TITLE"})
    IN \A j \in 1..Len(s) :
          CASE s[j].type = "SEQUENCE_TITLE" ->
                  numberingMap[s[j].id].nums = <<CountSince(s, j, "SEQUENCE_TITLE", {})>>
            [] s[j].type = "PART_TITLE" -> numberingMap[s[j].id].nums = <<part(j)>>
            [] s[j].type = "H3_TITLE" -> numberingMap[s[j].id].nums = <<part(j), h3(j)>>
            [] s[j].type = "H4_TITLE" -> numberingMap[s[j].id].nums = <<part(j), h3(j), h4(j)>>
            [] OTHER -> s[j].id \notin DOMAIN numberingMap

\* A part on one page, then a sequence title, then a part on a later page
\* that is numbered 1 again.
WitC22 ==
    LET s == ReadingOrder(pages)
        numberingMap == structureData(pages).numberingMap
        pageOf(id) == CHOOSE i \in 1..Len(pages) : id \in IdsOf(pages[i].elements)
    IN \E a, b, c \in 1..Len(s) :
          /\ a < b /\ b < c
          /\ s[a].type = "PART_TITLE" /\ s[b].type = "SEQUENCE_TITLE" /\ s[c].type = "PART_TITLE"
          /\ numberingMap[s[a].id].nums = <<1>>
          /\ numberingMap[s[b].id].nums = <<1>>
          /\ numberingMap[s[c].id].nums = <<1>>
          /\ pageOf(s[a].id) < pageOf(s[c].id)

\* C23: the TOC list has one entry for each SEQUENCE_TITLE and PART_TITLE of
\* the standard pages, in reading order, and no other entry; an entry's page
\* number is the rank of its page among the standard pages; the elements of
\* other pages get no label and no entry and change no counter.
ThmC23 ==
    LET structure == structureData(pages)
        tocList == structure.tocList
        titles == SelectSeq(ReadingOrder(pages), LAMBDA e : e.type \in {"SEQUENCE_TITLE", "PART_TITLE"})
        pageOf(id) == CHOOSE i \in 1..Len(pages) : pages[i].type = "standard" /\ id \in IdsOf(pages[i].elements)
        standardOnly == SelectSeq(pages, LAMBDA p : p.type = "standard")
    IN /\ Len(tocList) = Len(titles)
       /\ \A i \in 1..Len(tocList) :
             /\ tocList[i].id = titles[i].id
             /\ tocList[i].type = titles[i].type
             /\ tocList[i].title = titles[i].content
             /\ tocList[i].label = structure.numberingMap[titles[i].id]
             /\ tocList[i].targetPageId = pages[pageOf(titles[i].id)].id
             /\ tocList[i].pageNum =
                   Cardinality({k \in 1..pageOf(titles[i].id) : pages[k].type = "standard"})
       /\ \A i \in 1..Len(pages) : pages[i].type # "standard" =>
             IdsOf(pages[i].elements) \cap DOMAIN structure.numberingMap = {}
       /\ structure = structureData(standardOnly)

\* A white page holding titles lies between two standard pages; a title of
\* the third page is listed with page number 2, a text or lower title is not.
WitC23 ==
    LET tocList == structureData(pages).tocList
    IN /\ Len(pages) = 3
       /\ pages[2].type = "white" /\ Len(pages[2].elements) = 2
       /\ \E i \in 1..Len(tocList) : tocList[i].pageNum = 2 /\ tocList[i].targetPageId = pages[3].id
       /\ \E j \in 1..Len(pages[3].elements) : pages[3].elements[j].type \in {"H3_TITLE", "H4_TITLE", "TEXT"}
       /\ Len(tocList) < Len(pages[1].elements) + Len(pages[3].elements)

\* C24: in the output of applyGravity, read in the order of the input's y,
\* an element that is not a SEQUENCE_TITLE at y <= 40 stands on its floor (the
\* top margin, or 20px under the lowest bottom of the elements before it that
\* overlap it horizontally) whenever the floor is above its input y, and never
\* below its floor: it cannot slide further up.
ThmC24 ==
    \A i \in 1..Len(pages) :
        LET input == SortByY(pages[i].elements)
            out == applyGravity(pages[i].elements)
            floor(k) == Max({MARGIN_TOP} \cup
                            {out[j].y + out[j].height + GAP :
                                j \in {m \in 1..(k - 1) : /\ out[k].x < out[m].x + out[m].width
                                                         /\ out[k].x + out[k].width > out[m].x}})
        IN /\ Len(out) = Len(input)
           /\ \A k \in 1..Len(out) :
                 /\ out[k].id = input[k].id
                 /\ out[k].x = input[k].x
                 /\ IF input[k].type = "SEQUENCE_TITLE" /\ input[k].y <= MARGIN_TOP
                    THEN out[k].y = input[k].y
                    ELSE /\ out[k].y <= floor(k)
                         /\ floor(k) < input[k].y => out[k].y = floor(k)
                         /\ floor(k) >= input[k].y => out[k].y = input[k].y

\* An element loaded at y = 300 was pulled up to 20px under the element above
\* it when a drag ended.
WitC24 ==
    /\ nCommits = 2
    /\ ~GestureActive
    /\ \E a, b \in 1..Len(pages[1].elements) : \E c \in 1..Len(history[2][1].elements) :
          /\ history[2][1].elements[c].id = pages[1].elements[a].id
          /\ history[2][1].elements[c].y = 300
          /\ pages[1].elements[b].y = MARGIN_TOP
          /\ pages[1].elements[a].y = MARGIN_TOP + pages[1].elements[b].height + GAP
          /\ pages[1].elements[a].y < 300

\* Where each element is: id -> <<x, y>>, as a set of triples.
Positions(elements) == {<<elements[j].id, elements[j].x, elements[j].y>> : j \in 1..Len(elements)}

\* C25: resolveCollisions applied to its own output moves no element.
ThmC25 ==
    \A i \in 1..Len(pages) :
        LET once == resolveCollisions(pages[i].elements)
        IN Positions(resolveCollisions(once)) = Positions(once)

\* On the loaded page a first pass pushes two elements down, one of them
\* because the element above it was pushed.
WitC25 ==
    /\ nCommits = 1
    /\ Len(pages) = 1
    /\ LET elements == pages[1].elements
           once == resolveCollisions(elements)
       IN /\ Len(elements) = 3
          /\ Cardinality(Positions(once) \ Positions(elements)) = 2
          /\ \E a, b \in 1..3 : once[a].y > 300 + 400 /\ once[b].y = once[a].y + once[a].height + GAP

\* C26: applyGravity applied to its own output moves no element, whatever the
\* input: equal y values, overlapping elements, elements above the top
\* margin, SEQUENCE_TITLE elements.
ThmC26 ==
    \A i \in 1..Len(pages) :
        LET once == applyGravity(pages[i].elements)
        IN Positions(applyGravity(once)) = Positions(once)

\* The loaded page holds a SEQUENCE_TITLE above the top margin and two
\* overlapping elements of equal y, and a first pass moves an element.
WitC26 ==
    /\ nCommits = 1
    /\ Len(pages) = 1
    /\ LET elements == pages[1].elements
       IN /\ \E a \in 1..Len(elements) : elements[a].type = "SEQUENCE_TITLE" /\ elements[a].y < MARGIN_TOP
          /\ \E b, c \in 1..Len(elements) :
                /\ b # c
                /\ elements[b].y = elements[c].y
                /\ elements[b].type = "TEXT" /\ elements[c].type = "TEXT"
                /\ overlapsHorizontally(elements[b], elements[c])
          /\ Positions(applyGravity(elements)) # Positions(elements)

\* C27: a pointer move during a drag or a resize leaves history and cursor as
\* they are; the release that ends the gesture makes one commit, which puts
\* exactly one entry, the final page list, after the entries up to the
\* cursor; after a resize that page list is the previewed one.
ThmC27 ==
    [][/\ Logged("move") => history' = history /\ historyIndex' = historyIndex /\ nCommits' = nCommits
       /\ (GestureActive /\ ~GestureActive') =>
             /\ nCommits' = nCommits + 1
             /\ Len(history') = Len(HistoryAfterSave(history, historyIndex, pages'))
             /\ history'[Len(history')] = pages'
             /\ historyIndex' = Len(history') - 1
             /\ resizeState.isResizing => pages' = pages]_vars

\* A drag with a previewed move has ended: the page list is the last entry
\* and the previewed page list is no entry of the history.
WitC27 ==
    /\ Len(trace) >= 3
    /\ trace[Len(trace) - 2].op = "down"
    /\ trace[Len(trace) - 1].op = "move"
    /\ trace[Len(trace)].op = "commit"
    /\ ~GestureActive
    /\ historyIndex = Len(history) - 1
    /\ pages = history[Len(history)]
    /\ pages # history[Len(history) - 1]
    /\ \A k \in 1..Len(history) : history[k] # trace[Len(trace) - 1].pages

\* C28: a load that is refused for want of a page array, or that raises the
\* load error notification, leaves pages, history, cursor and active page as
\* they were.
CexC28 ==
    [][(\/ Logged("refused")
        \/ Logged("commit") /\ toast # "error" /\ toast' = "error") =>
          /\ pages' = pages
          /\ history' = history
          /\ historyIndex' = historyIndex
          /\ currentPageId' = currentPageId]_vars

\* C29: an undo is never followed by an automatic commit: when the summary
\* effect runs right after an undo it saves nothing, so the entries after the
\* cursor stay and repeated undo reaches the oldest entry.
CexC29 ==
    [][(/\ Len(trace) >= 1
        /\ trace[Len(trace)].op = "undo"
        /\ effectDeps' # effectDeps) =>
          /\ nCommits' = nCommits
          /\ history' = history
          /\ historyIndex' = historyIndex]_vars

\* C30: the active page id is the id of a page of the active document.
CexC30 == FindIndexById(pages, currentPageId) # -1

\* C31: after a toolbar or panel deletion of two or more selected elements the
\* committed current page holds none of the elements that were selected.
CexC31 ==
    [][(Logged("delete_each") /\ Cardinality(selectedIds) >= 2) =>
          \A i \in 1..Len(pages') :
              pages'[i].id = currentPageId => IdsOf(pages'[i].elements) \cap selectedIds = {}]_vars

\* C32: when the answer of an asynchronous request arrives, the update is
\* applied to the document active at that moment: every page of that document
\* is still there with all its elements (the updated one aside), and every
\* history entry up to the cursor is still in the history.
CexC32 ==
    [][Logged("completed") =>
          /\ \A i \in 1..Len(pages) : \E k \in 1..Len(pages') :
                /\ pages'[k].id = pages[i].id
                /\ \A j \in 1..Len(pages[i].elements) :
                      pages[i].elements[j].id # request.id =>
                         \E m \in 1..Len(pages'[k].elements) : pages'[k].elements[m] = pages[i].elements[j]
          /\ \A n \in 1..(historyIndex + 1) : \E k \in 1..Len(history') : history'[k] = history[n]]_vars

\* The y of the element id in a list.
YOf(elements, id) == (CHOOSE e \in {elements[j] : j \in 1..Len(elements)} : e.id = id).y

\* An element without its position and its object name.
Unplaced(el) == [el EXCEPT !.y = 0, !.ref = 0]

\* The example of the specification: A(y=40, h=100) and B(y=80, h=50), full
\* horizontal overlap.
ExampleA == [id |-> 1, ref |-> 0, type |-> "TEXT", x |-> 40, y |-> 40, width |-> 300, height |-> 100, content |-> "A"]
ExampleB == [id |-> 2, ref |-> 0, type |-> "TEXT", x |-> 40, y |-> 80, width |-> 300, height |-> 50, content |-> "B"]

\* C33: in the output of resolveCollisions, of two horizontally overlapping
\* elements the one that comes later in ascending input y stands at least 20px
\* under the bottom of the other; in the example A stays and B.y becomes 160.
ThmC33 ==
    /\ \A i \in 1..Len(pages) :
          LET sorted == SortByY(pages[i].elements)
              out == resolveCollisions(pages[i].elements)
          IN \A a, b \in 1..Len(sorted) :
                (a < b /\ overlapsHorizontally(sorted[a], sorted[b])) =>
                   YOf(out, sorted[b].id) >= YOf(out, sorted[a].id) + sorted[a].height + 20
    /\ resolveCollisions(<<ExampleA, ExampleB>>) = <<ExampleA, [ExampleB EXCEPT !.y = 160]>>
    /\ resolveCollisions(<<ExampleB, ExampleA>>) = <<ExampleA, [ExampleB EXCEPT !.y = 160]>>

\* The loaded page holds a tall element at the top margin and a short one
\* that starts inside it; resolveCollisions leaves the first and puts the
\* second 20px under it.
WitC33 ==
    /\ nCommits = 1
    /\ Len(pages) = 1
    /\ LET elements == pages[1].elements
           out == resolveCollisions(elements)
       IN /\ Len(elements) = 2
          /\ \E a, b \in 1..2 :
                /\ elements[a].y = 40 /\ elements[a].height = 400
                /\ elements[b].y = 300 /\ elements[b].height = 50
                /\ overlapsHorizontally(elements[a], elements[b])
                /\ YOf(out, elements[a].id) = 40
                /\ YOf(out, elements[b].id) = 460

\* C34: resolveCollisions moves no element up, changes nothing but y, and
\* returns each element of its input once and no other element.
ThmC34 ==
    \A i \in 1..Len(pages) :
        LET elements == pages[i].elements
            out == resolveCollisions(elements)
        IN /\ Len(out) = Len(elements)
           /\ IdsOf(out) = IdsOf(elements)
           /\ \A j \in 1..Len(elements) : \E k \in 1..Len(out) :
                 /\ Unplaced(out[k]) = Unplaced(elements[j])
                 /\ out[k].y >= elements[j].y

\* The loaded page holds three elements, stored in descending y; the output
\* is in another order and one element of it is lower than it was.
WitC34 ==
    /\ nCommits = 1
    /\ Len(pages) = 1
    /\ LET elements == pages[1].elements
           out == resolveCollisions(elements)
       IN /\ Len(elements) = 3
          /\ elements[1].y > elements[3].y
          /\ out[1].id # elements[1].id
          /\ \E j \in 1..3 : YOf(out, elements[j].id) > elements[j].y

\* C35: applyGravity moves no element down, changes nothing but y, returns
\* each element of its input once and no other element, and leaves a
\* SEQUENCE_TITLE whose y is at most 40 where it is.
ThmC35 ==
    \A i \in 1..Len(pages) :
        LET elements == pages[i].elements
            out == applyGravity(elements)
        IN /\ Len(out) = Len(elements)
           /\ IdsOf(out) = IdsOf(elements)
           /\ \A j \in 1..Len(elements) : \E k \in 1..Len(out) :
                 /\ Unplaced(out[k]) = Unplaced(elements[j])
                 /\ out[k].y <= elements[j].y
                 /\ (elements[j].type = "SEQUENCE_TITLE" /\ elements[j].y <= 40) => out[k].y = elements[j].y

\* The loaded page holds a SEQUENCE_TITLE above the top margin, which stays,
\* and an element that is pulled up to stand under it.
WitC35 ==
    /\ nCommits = 1
    /\ Len(pages) = 1
    /\ LET elements == pages[1].elements
           out == applyGravity(elements)
       IN \E a, b \in 1..Len(elements) :
             /\ elements[a].type = "SEQUENCE_TITLE" /\ elements[a].y = 0
             /\ YOf(out, elements[a].id) = 0
             /\ elements[b].y = 300
             /\ YOf(out, elements[b].id) = elements[a].height + GAP

\* C36: a deletion (deleteElement or the Delete key) commits a document whose
\* current page holds the remaining elements of that page, compacted by
\* applyGravity, and none of the deleted ones; every other page is as before.
CexC36 ==
    [][Logged("delete") =>
          LET deleted == selectedIds \ selectedIds'
              shown == IF HasCurrentPage THEN FindIndexById(pages, currentPageId) + 1 ELSE 1
              remaining == SeqFilter(currentElements, IdsOf(currentElements) \ deleted)
              compacted == applyGravity(remaining)
          IN /\ nCommits' = nCommits + 1
             /\ Len(pages') = Len(pages)
             /\ \A i \in 1..Len(pages) :
                   IF i = shown
                   THEN /\ IdsOf(pages'[i].elements) \cap deleted = {}
                        /\ Len(pages'[i].elements) = Len(compacted)
                        /\ \A j \in 1..Len(compacted) :
                              [pages'[i].elements[j] EXCEPT !.ref = 0] = [compacted[j] EXCEPT !.ref = 0]
                   ELSE pages'[i] = pages[i]]_vars

\* C37: a position returned by findSmartPosition for a height h leaves 20px
\* between the band [y, y + h] and every element of the page, whatever the
\* element's x: the band starts at least 20px under the element's bottom or
\* ends at least 20px above its top.
ThmC37 ==
    \A i \in 1..Len(pages) : \A q \in PlacementRequests :
        LET elements == pages[i].elements
            r == findSmartPosition(elements, q.width, q.height, q.x)
        IN r.found =>
              \A j \in 1..Len(elements) :
                 \/ r.y >= elements[j].y + elements[j].height + 20
                 \/ r.y + q.height + 20 <= elements[j].y

\* An element was inserted into the gap between two loaded elements: it
\* stands under the first and ends 20px or more above the second.
WitC37 ==
    \E i \in 1..Len(pages) : \E a, b, k \in 1..Len(pages[i].elements) :
        LET elements == pages[i].elements
        IN /\ elements[k].id \in selectedIds
           /\ elements[k].y >= elements[a].y + elements[a].height + 20
           /\ elements[k].y + elements[k].height + 20 <= elements[b].y
           /\ elements[b].y + elements[b].height + 20 + elements[k].height > A4_HEIGHT_PX - MARGIN_BOTTOM

\* C38: no committed page holds more than one SEQUENCE_TITLE: every page of
\* every history entry has at most one.
CexC38 ==
    \A k \in 1..Len(history) : \A i \in 1..Len(history[k]) :
        Cardinality({j \in 1..Len(history[k][i].elements) :
                        history[k][i].elements[j].type = "SEQUENCE_TITLE"}) <= 1

====
